---------------------------- MODULE Spec2Model ----------------------------
(***************************************************************************)
(* A model of the HPXML to HEScore translator                              *)
(* (src/code/hpxml_to_hescore.py, src/hescorehpxml/hpxml3.py).             *)
(*                                                                         *)
(* The translator is a pure function of its input document.  Each          *)
(* specification below draws an input from a bounded set (Init) and        *)
(* applies one operation of the translator to it (one action per           *)
(* operation).  Every operation returns either a value or the exception    *)
(* that escapes it, so that the kind of a failure is part of the result.   *)
(*                                                                         *)
(* Numbers.  The code computes with Python floats.  The model keeps exact  *)
(* rationals as integer numerators over a stated denominator: azimuths in  *)
(* half degrees, R-values in tenths, efficiencies in hundredths.  An       *)
(* optional value (None in the code) is the empty tuple, a present value v *)
(* the tuple <<v>>.                                                        *)
(*                                                                         *)
(* Iteration order.  The code is Python 2: the order in which a dict is    *)
(* iterated is not fixed by the language.  Where min/max/sorted run over a *)
(* dict, the input field "tie" says which of two equal candidates the      *)
(* iteration meets first ("lo": the canonical order below, "hi": its       *)
(* reverse).  min/max over a tuple take the first candidate in tuple order.*)
(***************************************************************************)
EXTENDS Integers, Sequences, FiniteSets, TLC

VARIABLES pc, inp, out

vars == <<pc, inp, out>>

---------------------------------------------------------------------------
(* Results, optional values, arithmetic                                    *)

None == <<>>

Some(v) == <<v>>

IsNone(o) == Len(o) = 0

Val(o) == o[1]

Ok(v) == [err |-> "ok", val |-> v]

Raise(kind, msg) == [err |-> kind, val |-> msg]

NoOut == [err |-> "pending", val |-> "pending"]

Failed(r) == r.err # "ok"

Abs(x) == IF x < 0 THEN -x ELSE x

(* Python 2 round(): to the nearest integer, a half away from zero.  The   *)
(* argument is the rational num/den with den > 0.                          *)
PyRound(num, den) ==
    IF num >= 0 THEN (2 * num + den) \div (2 * den)
    ELSE -((2 * (-num) + den) \div (2 * den))

RECURSIVE SeqSum(_)
SeqSum(s) == IF Len(s) = 0 THEN 0 ELSE Head(s) + SeqSum(Tail(s))

SeqToSet(s) == {s[i] : i \in 1..Len(s)}

(* All sequences over S of length 0..n.                                    *)
SeqsUpTo(S, n) == UNION {[1..k -> S] : k \in 0..n}

TiePolicies == {"lo", "hi"}

(* Position of x in the sequence order (order has no repeats).             *)
IndexOf(order, x) == CHOOSE i \in 1..Len(order) : order[i] = x

(* Whether the iteration of a dict with canonical key order `order` meets  *)
(* key a before key b under the tie policy.                                *)
MetBefore(order, tie, a, b) ==
    IF tie = "lo" THEN IndexOf(order, a) < IndexOf(order, b)
    ELSE IndexOf(order, a) > IndexOf(order, b)

---------------------------------------------------------------------------
(* unspin_azimuth and get_nearest_azimuth                                  *)

unspin_azimuth(azimuth) == azimuth % 360

hpxml_orientation_to_azimuth ==
    [north |-> 0, northeast |-> 45, east |-> 90, southeast |-> 135,
     south |-> 180, southwest |-> 225, west |-> 270, northwest |-> 315]

Orientations == DOMAIN hpxml_orientation_to_azimuth

(* round half away from zero, then modulo 8, then times 45                 *)
BinOfHalfDeg(h) == (PyRound(h, 90) % 8) * 45

(* azimuth: optional, in half degrees (float(azimuth) / 45. is h / 90);    *)
(* orientation: optional name.                                             *)
get_nearest_azimuth(azimuth, orientation) ==
    IF ~IsNone(azimuth) THEN Ok(BinOfHalfDeg(Val(azimuth)))
    ELSE IF IsNone(orientation)
         THEN Raise("TranslationError", "Either an orientation or azimuth is required.")
         ELSE IF Val(orientation) \in Orientations
              THEN Ok(hpxml_orientation_to_azimuth[Val(orientation)])
              ELSE Raise("KeyError", "orientation")

---------------------------------------------------------------------------
(* Specification SpecAzimuth: get_nearest_azimuth applied to an azimuth,   *)
(* to its own result, and to the azimuth turned by whole circles.          *)

MaxHalfDeg == 720

MaxTurns == 1

AzimuthInputs ==
    [azimuth : {None} \cup {Some(h) : h \in (-MaxHalfDeg)..MaxHalfDeg},
     orientation : {None} \cup {Some(o) : o \in Orientations},
     turns : (-MaxTurns)..MaxTurns]

InitAzimuth == pc = "azimuth" /\ inp \in AzimuthInputs /\ out = NoOut

Turned(azimuth, turns) ==
    IF IsNone(azimuth) THEN None ELSE Some(Val(azimuth) + 720 * turns)

ApplyNearestAzimuth ==
    /\ pc = "azimuth"
    /\ LET first == get_nearest_azimuth(inp.azimuth, inp.orientation)
       IN out' = [first |-> first,
                  again |-> IF Failed(first) THEN first
                            ELSE get_nearest_azimuth(Some(2 * first.val), inp.orientation),
                  shifted |-> get_nearest_azimuth(Turned(inp.azimuth, inp.turns),
                                                  inp.orientation)]
    /\ pc' = "done"
    /\ UNCHANGED inp

SpecAzimuth == InitAzimuth /\ [][ApplyNearestAzimuth]_vars

(* C7: get_nearest_azimuth applied to an azimuth is idempotent and is      *)
(* periodic in whole turns of 360 degrees, for every azimuth, negative     *)
(* values and values halfway between two 45-degree bins included.          *)
C7_IdempotentAndPeriodic ==
    (pc = "done" /\ ~IsNone(inp.azimuth))
        => (out.again = out.first /\ out.shifted = out.first)


---------------------------------------------------------------------------
(* _get_systems_hvac_distribution                                          *)
(*                                                                         *)
(* An air distribution system is [ducts, cfa, sealed]: its Ducts elements  *)
(* in document order, its optional ConditionedFloorAreaServed and whether  *)
(* it counts as sealed.  A duct is [loc, frac, ins]: the DuctLocation text *)
(* ("" when the element is absent), FractionDuctArea in whole units (only  *)
(* ratios of fractions enter the result) and whether it has insulation.    *)

duct_location_map ==
    ("conditioned space" :> Some("cond_space")) @@
    ("unconditioned space" :> None) @@
    ("unconditioned basement" :> Some("uncond_basement")) @@
    ("unvented crawlspace" :> Some("unvented_crawl")) @@
    ("vented crawlspace" :> Some("vented_crawl")) @@
    ("crawlspace" :> None) @@
    ("unconditioned attic" :> Some("uncond_attic")) @@
    ("interstitial space" :> None) @@
    ("garage" :> None) @@
    ("outside" :> None)

(* canonical order of the keys of the dict ductfracs                       *)
DuctLocOrder ==
    <<"cond_space", "uncond_basement", "unvented_crawl", "vented_crawl", "uncond_attic">>

HEScoreDuctLocs == SeqToSet(DuctLocOrder)

(* The exception raised while the Ducts of one system are read, if any:    *)
(* the first duct with no DuctLocation (KeyError) or with a location that  *)
(* has no HEScore equivalent (TranslationError).                           *)
DuctReadError(ducts) ==
    LET bad == {i \in 1..Len(ducts) :
                   \/ ducts[i].loc \notin DOMAIN duct_location_map
                   \/ IsNone(duct_location_map[ducts[i].loc])}
    IN IF bad = {} THEN Ok(TRUE)
       ELSE LET i == CHOOSE j \in bad : \A k \in bad : j <= k
            IN IF ducts[i].loc \notin DOMAIN duct_location_map
               THEN Raise("KeyError", "duct_location_map")
               ELSE Raise("TranslationError", "No comparable duct location in HEScore")

HEScoreLoc(duct) == Val(duct_location_map[duct.loc])

RECURSIVE DuctFracAt(_, _)
(* airdistsys_ductfracs[loc] before it is normalized                       *)
DuctFracAt(ducts, loc) ==
    IF Len(ducts) = 0 THEN 0
    ELSE (IF HEScoreLoc(Head(ducts)) = loc THEN Head(ducts).frac ELSE 0)
         + DuctFracAt(Tail(ducts), loc)

total_duct_frac(sys) == SeqSum([i \in 1..Len(sys.ducts) |-> sys.ducts[i].frac])

(* The exception one system of the loop raises, if any: a read error, or   *)
(* the float division by a total of zero when it is normalized.            *)
AirDistSysError(sys) ==
    LET r == DuctReadError(sys.ducts)
    IN IF Failed(r) THEN r
       ELSE IF Len(sys.ducts) > 0 /\ total_duct_frac(sys) = 0
            THEN Raise("ZeroDivisionError", "total_duct_frac")
            ELSE Ok(TRUE)

RECURSIVE FirstSysError(_)
FirstSysError(systems) ==
    IF Len(systems) = 0 THEN Ok(TRUE)
    ELSE LET r == AirDistSysError(Head(systems))
         IN IF Failed(r) THEN r ELSE FirstSysError(Tail(systems))

allsame_cfaserved(systems) ==
    \/ \A i \in 1..Len(systems) : ~IsNone(systems[i].cfa)
    \/ \A i \in 1..Len(systems) : IsNone(systems[i].cfa)

(* Common denominator of the normalized shares of all systems.             *)
RECURSIVE ShareDenominator(_)
ShareDenominator(systems) ==
    IF Len(systems) = 0 THEN 1
    ELSE (IF Len(Head(systems).ducts) = 0 THEN 1 ELSE total_duct_frac(Head(systems)))
         * ShareDenominator(Tail(systems))

(* One system's entry for loc after normalization and scaling by the floor *)
(* area served, as a numerator over the common denominator den.            *)
SysShare(sys, loc, den) ==
    IF Len(sys.ducts) = 0 THEN 0
    ELSE DuctFracAt(sys.ducts, loc) * (den \div total_duct_frac(sys))
         * (IF IsNone(sys.cfa) THEN 1 ELSE Val(sys.cfa))

(* ductfracs[loc] and issealedfracs[loc] summed over the systems           *)
RECURSIVE CombinedShare(_, _, _)
CombinedShare(systems, loc, den) ==
    IF Len(systems) = 0 THEN 0
    ELSE SysShare(Head(systems), loc, den) + CombinedShare(Tail(systems), loc, den)

RECURSIVE SealedShare(_, _, _)
SealedShare(systems, loc, den) ==
    IF Len(systems) = 0 THEN 0
    ELSE (IF Head(systems).sealed THEN SysShare(Head(systems), loc, den) ELSE 0)
         + SealedShare(Tail(systems), loc, den)

AllDucts(systems) ==
    UNION {SeqToSet(systems[i].ducts) : i \in 1..Len(systems)}

DuctKeys(systems) == {HEScoreLoc(d) : d \in AllDucts(systems)}

hescore_ductloc_has_ins(systems, loc) ==
    \E d \in AllDucts(systems) : HEScoreLoc(d) = loc /\ d.ins

(* sorted(keys, key=share, reverse=True): descending share, keys of equal  *)
(* share in the order the dict iterates them.                              *)
RECURSIVE SortedByShare(_, _, _)
SortedByShare(keys, share, tie) ==
    IF keys = {} THEN <<>>
    ELSE LET m == CHOOSE a \in keys : \A b \in keys \ {a} :
                      \/ share[a] > share[b]
                      \/ share[a] = share[b] /\ MetBefore(DuctLocOrder, tie, a, b)
         IN <<m>> \o SortedByShare(keys \ {m}, share, tie)

ThreeLargest(sorted) == SubSeq(sorted, 1, IF Len(sorted) < 3 THEN Len(sorted) ELSE 3)

(* int(round(x / normalization_denominator * 100)) for each kept location  *)
RoundedPercent(share, kept) ==
    LET denom == SeqSum([i \in 1..Len(kept) |-> share[kept[i]]])
    IN [l \in SeqToSet(kept) |-> PyRound(100 * share[l], denom)]

(* mutant of AdjustLargest: the rounding remainder is dropped              *)
AdjustLargest_Dropped(pct, kept) == pct

(* mutant of AdjustLargest: the last bucket takes the remainder             *)
AdjustLargest_Last(pct, kept) ==
    LET total == SeqSum([i \in 1..Len(kept) |-> pct[kept[i]]])
    IN IF Len(kept) > 0
       THEN [pct EXCEPT ![kept[Len(kept)]] = pct[kept[Len(kept)]] + (100 - total)]
       ELSE pct

(* the largest bucket takes 100 minus the sum of the rounded percentages   *)
AdjustLargest(pct, kept) ==
    LET total == SeqSum([i \in 1..Len(kept) |-> pct[kept[i]]])
    IN IF Len(kept) > 0
       THEN [pct EXCEPT ![kept[1]] = pct[kept[1]] + (100 - total)]
       ELSE pct

DuctName(i) == CASE i = 1 -> "duct1" [] i = 2 -> "duct2" [] OTHER -> "duct3"

get_systems_hvac_distribution(systems, tie) ==
    LET e == FirstSysError(systems)
    IN IF Failed(e) THEN e
       ELSE IF Len(systems) > 1 /\ ~allsame_cfaserved(systems)
       THEN Raise("TranslationError",
                  "All HVACDistribution elements need to have or NOT have the ConditionFloorAreaServed subelement.")
       ELSE LET den == ShareDenominator(systems)
                keys == DuctKeys(systems)
                share == [l \in keys |-> CombinedShare(systems, l, den)]
                kept == ThreeLargest(SortedByShare(keys, share, tie))
            IN IF \E i \in 1..Len(kept) : share[kept[i]] = 0
               THEN Raise("ZeroDivisionError", "issealedfracs")
               ELSE LET fraction == AdjustLargest(RoundedPercent(share, kept), kept)
                    IN Ok([i \in 1..Len(kept) |->
                             [name |-> DuctName(i),
                              location |-> kept[i],
                              fraction |-> fraction[kept[i]],
                              insulated |-> hescore_ductloc_has_ins(systems, kept[i]),
                              sealed |-> PyRound(SealedShare(systems, kept[i], den),
                                                 share[kept[i]]) # 0]])


---------------------------------------------------------------------------
(* Specification SpecDuct: _get_systems_hvac_distribution on one building. *)

MaxFrac == 3

MaxCfa == 3

MaxDuctsPerSystem == 2

(* Buildings with one system whose ducts lie in distinct locations.        *)
SingleSystemLocs ==
    <<"conditioned space", "unconditioned basement", "unvented crawlspace",
      "unconditioned attic", "garage">>

RECURSIVE DuctsOver(_, _)
(* One duct at each location of the set of indices idx, in document order, *)
(* with every choice of fractions.                                         *)
DuctsOver(idx, fracs) ==
    IF idx = {} THEN {<<>>}
    ELSE LET i == CHOOSE j \in idx : \A k \in idx : j <= k
         IN {<<[loc |-> SingleSystemLocs[i], frac |-> f, ins |-> FALSE]>> \o rest :
                f \in fracs, rest \in DuctsOver(idx \ {i}, fracs)}

(* the buildings of a set, each with the order dicts are iterated in      *)
DuctInputsOf(tie, buildings) == {[systems |-> b, tie |-> tie] : b \in buildings}

SingleSystemBuildings(tie) ==
    DuctInputsOf(tie,
    {<<[ducts |-> d, cfa |-> c, sealed |-> s]>> :
        d \in UNION {DuctsOver(idx, 0..MaxFrac) :
                        idx \in {x \in SUBSET (1..Len(SingleSystemLocs)) : Cardinality(x) <= 4}},
        c \in {None, Some(MaxCfa)},
        s \in BOOLEAN})

(* Buildings with two systems whose ducts may share locations.             *)
TwoSystemDucts(ins) ==
    UNION {[1..k -> [loc : {"conditioned space", "unconditioned attic"},
                     frac : {0, 1, MaxFrac},
                     ins : {ins}]] : k \in 1..MaxDuctsPerSystem}

TwoSystemBuildings(tie) ==
    DuctInputsOf(tie,
    {<<[ducts |-> d1, cfa |-> c1, sealed |-> s1],
       [ducts |-> d2, cfa |-> c2, sealed |-> TRUE]>> :
        d1 \in TwoSystemDucts(FALSE), d2 \in TwoSystemDucts(TRUE),
        c1 \in {None, Some(MaxCfa)}, c2 \in {None, Some(1)},
        s1 \in BOOLEAN})

DuctInputs(tie) ==
    DuctInputsOf(tie, {<<>>}) \cup SingleSystemBuildings(tie) \cup TwoSystemBuildings(tie)

InitDuct ==
    /\ pc = "hvac_distribution"
    /\ \E tie \in TiePolicies : inp \in DuctInputs(tie)
    /\ out = NoOut

GetSystemsHvacDistribution ==
    /\ pc = "hvac_distribution"
    /\ out' = get_systems_hvac_distribution(inp.systems, inp.tie)
    /\ pc' = "done"
    /\ UNCHANGED inp

SpecDuct == InitDuct /\ [][GetSystemsHvacDistribution]_vars

BucketFractionSum(buckets) == SeqSum([i \in 1..Len(buckets) |-> buckets[i].fraction])

(* C1: whenever _get_systems_hvac_distribution produces duct buckets,      *)
(* there are at most 3 of them and their integer fractions sum to exactly  *)
(* 100.                                                                    *)
C1_DuctBucketsSumTo100 ==
    (pc = "done" /\ out.err = "ok" /\ Len(out.val) > 0)
        => (Len(out.val) <= 3 /\ BucketFractionSum(out.val) = 100)

(* C1 witness: a building with more than three duct locations whose three  *)
(* largest shares do not round to a total of 100, so that a location was   *)
(* discarded and the largest bucket took a remainder.                      *)
C1_Witness ==
    /\ pc = "done" /\ out.err = "ok" /\ Len(out.val) = 3
    /\ Len(inp.systems) = 1 /\ Len(inp.systems[1].ducts) = 4
    /\ out.val[1].fraction = 34 /\ out.val[2].fraction = 33 /\ out.val[3].fraction = 33


---------------------------------------------------------------------------
(* get_heating_system_type and get_cooling_system_type                     *)
(*                                                                         *)
(* A unit of the HVAC plant is a record                                    *)
(*   tag    "HeatingSystem", "CoolingSystem" or "HeatPump"                 *)
(*   hptype optional HeatPumpType                                          *)
(*   fuel   optional HeatingSystemFuel                                     *)
(*   htype  name of the child of HeatingSystemType ("" when absent)        *)
(*   ctype  optional CoolingSystemType                                     *)
(*   heff, ceff  the annual heating / cooling efficiency elements in       *)
(*          document order, each [units, value], value in hundredths       *)
(*   year   optional YearInstalled or ModelYear                            *)
(*   hcap, ccap  optional HeatingCapacity / CoolingCapacity                *)

heat_pump_type_map ==
    ("water-to-air" :> "gchp") @@ ("water-to-water" :> "gchp") @@
    ("air-to-air" :> "heat_pump") @@ ("mini-split" :> "heat_pump") @@
    ("ground-to-air" :> "gchp")

fuel_type_mapping ==
    ("electricity" :> "electric") @@ ("renewable electricity" :> "electric") @@
    ("natural gas" :> "natural_gas") @@ ("renewable natural gas" :> "natural_gas") @@
    ("fuel oil" :> "fuel_oil") @@ ("fuel oil 1" :> "fuel_oil") @@
    ("fuel oil 2" :> "fuel_oil") @@ ("fuel oil 4" :> "fuel_oil") @@
    ("fuel oil 5/6" :> "fuel_oil") @@ ("propane" :> "lpg")

heating_type_map ==
    ("Furnace" :> "central_furnace") @@ ("WallFurnace" :> "wall_furnace") @@
    ("Boiler" :> "boiler") @@ ("ElectricResistance" :> "baseboard")

heating_eff_units ==
    ("heat_pump" :> "HSPF") @@ ("central_furnace" :> "AFUE") @@
    ("wall_furnace" :> "AFUE") @@ ("boiler" :> "AFUE") @@ ("gchp" :> "COP")

cooling_type_map ==
    ("central air conditioning" :> "split_dx") @@
    ("room air conditioner" :> "packaged_dx") @@
    ("mini-split" :> "split_dx")

cooling_eff_units ==
    ("split_dx" :> Some("SEER")) @@ ("packaged_dx" :> Some("EER")) @@
    ("heat_pump" :> Some("SEER")) @@ ("gchp" :> Some("EER")) @@
    ("dec" :> None) @@ ("iec" :> None) @@ ("idec" :> None)

(* the values of the efficiency elements whose Units equal units           *)
EffValues(effs, units) ==
    LET match == SelectSeq(effs, LAMBDA e : e.units = units)
    IN [i \in 1..Len(match) |-> match[i].value]

(* efficiency_method and efficiency or year from the matching efficiency   *)
(* elements: the first one if there is any, else the year, which must be   *)
(* there.                                                                  *)
ResolveEfficiency(sys, eff_els, year, capacity) ==
    IF Len(eff_els) = 0
    THEN IF IsNone(year) THEN Raise("IndexError", "list index out of range")
         ELSE Ok(sys @@ [efficiency_method |-> "shipment_weighted",
                         year |-> Val(year), capacity |-> capacity])
    ELSE Ok(sys @@ [efficiency_method |-> "user",
                    efficiency |-> eff_els[1], capacity |-> capacity])

(* type and fuel_primary of a heating unit, or the exception               *)
HeatingTypeAndFuel(htgsys) ==
    IF htgsys.tag = "HeatPump"
    THEN IF IsNone(htgsys.hptype)
         THEN Ok([fuel_primary |-> "electric", type |-> "heat_pump"])
         ELSE IF Val(htgsys.hptype) \in DOMAIN heat_pump_type_map
              THEN Ok([fuel_primary |-> "electric",
                       type |-> heat_pump_type_map[Val(htgsys.hptype)]])
              ELSE Raise("KeyError", "heat_pump_type_map")
    ELSE IF htgsys.tag # "HeatingSystem"
    THEN Raise("AssertionError", "htgsys.tag.endswith('HeatingSystem')")
    ELSE IF IsNone(htgsys.fuel) \/ Val(htgsys.fuel) \notin DOMAIN fuel_type_mapping
    THEN Raise("KeyError", "fuel_type_mapping")
    ELSE IF htgsys.htype \notin DOMAIN heating_type_map
    THEN Raise("TranslationError",
               "HEScore does not support the HPXML HeatingSystemType " \o htgsys.htype)
    ELSE Ok([fuel_primary |-> fuel_type_mapping[Val(htgsys.fuel)],
             type |-> heating_type_map[htgsys.htype]])

get_heating_system_type(htgsys) ==
    LET tf == HeatingTypeAndFuel(htgsys)
    IN IF Failed(tf) THEN tf
       ELSE IF ~(tf.val.type \in {"furnace", "baseboard"} /\ tf.val.fuel_primary = "electric")
       THEN IF tf.val.type \notin DOMAIN heating_eff_units
            THEN Raise("KeyError", "eff_units")
            ELSE ResolveEfficiency(tf.val,
                                   EffValues(htgsys.heff, heating_eff_units[tf.val.type]),
                                   htgsys.year, htgsys.hcap)
       ELSE Ok(tf.val @@ [efficiency_method |-> "None", capacity |-> htgsys.hcap])

get_cooling_system_type(clgsys) ==
    LET type == IF clgsys.tag = "HeatPump"
                THEN IF IsNone(clgsys.hptype) THEN Ok("heat_pump")
                     ELSE IF Val(clgsys.hptype) \in DOMAIN heat_pump_type_map
                          THEN Ok(heat_pump_type_map[Val(clgsys.hptype)])
                          ELSE Raise("KeyError", "heat_pump_type_map")
                ELSE IF clgsys.tag # "CoolingSystem"
                THEN Raise("AssertionError", "clgsys.tag.endswith('CoolingSystem')")
                ELSE IF IsNone(clgsys.ctype) \/ Val(clgsys.ctype) \notin DOMAIN cooling_type_map
                THEN Raise("KeyError", "hpxml_cooling_type")
                ELSE Ok(cooling_type_map[Val(clgsys.ctype)])
    IN IF Failed(type) THEN type
       ELSE LET units == cooling_eff_units[type.val]
            IN ResolveEfficiency([type |-> type.val],
                                 IF IsNone(units) THEN <<>>
                                 ELSE EffValues(clgsys.ceff, Val(units)),
                                 clgsys.year, clgsys.ccap)


---------------------------------------------------------------------------
(* _get_systems_heating and _get_systems_cooling                           *)
(*                                                                         *)
(* plant: the children of HVACPlant that are HeatingSystem, CoolingSystem  *)
(* or HeatPump elements, in document order.  primary: the optional index   *)
(* of the unit the PrimaryHeatingSystem / PrimaryCoolingSystem idref names.*)
(* Capacities are in Btu/h, so that the placeholder 1.0 is the integer 1.  *)

IsTranslationError(r) == r.err = "TranslationError"

(* The loop over the units that tolerates TranslationError: results is the *)
(* sequence of the units' classifications.  Any other exception escapes    *)
(* the loop at once; when every unit raised TranslationError the last one  *)
(* is raised again after the loop.                                         *)
TolerantCollect(results) ==
    LET escaping == {i \in 1..Len(results) :
                        Failed(results[i]) /\ ~IsTranslationError(results[i])}
        good == SelectSeq(results, LAMBDA r : ~Failed(r))
    IN IF escaping # {}
       THEN results[CHOOSE i \in escaping : \A j \in escaping : i <= j]
       ELSE IF Len(results) > 0 /\ Len(good) = 0
            THEN results[Len(results)]
            ELSE Ok([i \in 1..Len(good) |-> good[i].val])

IsHeatingUnit(u) == u.tag \in {"HeatingSystem", "HeatPump"}

IsCoolingUnit(u) == u.tag \in {"CoolingSystem", "HeatPump"}

(* htgsystems: the classified systems to combine, or the exception         *)
HeatingSystemsToCombine(plant, primary) ==
    IF IsNone(primary)
    THEN LET units == SelectSeq(plant, IsHeatingUnit)
         IN TolerantCollect([i \in 1..Len(units) |-> get_heating_system_type(units[i])])
    ELSE LET r == get_heating_system_type(plant[Val(primary)])
         IN IF Failed(r) THEN r ELSE Ok(<<r.val>>)

CoolingSystemsToCombine(plant, primary) ==
    IF IsNone(primary)
    THEN LET units == SelectSeq(plant, IsCoolingUnit)
         IN TolerantCollect([i \in 1..Len(units) |-> get_cooling_system_type(units[i])])
    ELSE LET r == get_cooling_system_type(plant[Val(primary)])
         IN IF Failed(r) THEN r ELSE Ok(<<r.val>>)

(* mutant of FillCapacity: a missing capacity is filled in for any number  *)
(* of systems                                                              *)
FillCapacity_Always(systems, message) ==
    Ok([i \in 1..Len(systems) |->
          IF IsNone(systems[i].capacity)
          THEN [systems[i] EXCEPT !.capacity = Some(1)] ELSE systems[i]])

(* A sole system without capacity gets the capacity 1.0; one of several    *)
(* systems without capacity is an error.                                   *)
FillCapacity(systems, message) ==
    IF \E i \in 1..Len(systems) : IsNone(systems[i].capacity)
    THEN IF Len(systems) = 1
         THEN Ok(<<[systems[1] EXCEPT !.capacity = Some(1)]>>)
         ELSE Raise("TranslationError", message)
    ELSE Ok(systems)

(* the value a system contributes under its efficiency method              *)
MethodValue(sys) ==
    IF sys.efficiency_method = "user" THEN sys.efficiency ELSE sys.year

HeatingGroupKey(sys) == <<sys.type, sys.fuel_primary, sys.efficiency_method>>

CoolingGroupKey(sys) == <<sys.type, sys.efficiency_method>>

(* totalcapacity and sum of one group: key is the group's key and keys the *)
(* sequence of the keys of all systems                                     *)
GroupCapacity(systems, keys, key) ==
    SeqSum([i \in 1..Len(systems) |->
              IF keys[i] = key THEN Val(systems[i].capacity) ELSE 0])

GroupSum(systems, keys, key) ==
    SeqSum([i \in 1..Len(systems) |->
              IF keys[i] = key /\ systems[i].efficiency_method # "None"
              THEN MethodValue(systems[i]) * Val(systems[i].capacity) ELSE 0])

(* index of the first system of each group, in order of first appearance   *)
GroupLeaders(keys) ==
    {i \in 1..Len(keys) : \A j \in 1..(i - 1) : keys[j] # keys[i]}

(* the group of the first system, whatever its capacity                    *)
LargestGroup_First(systems, keys, tie) == 1

(* max(groups, key=totalcapacity): the group met first among those of the  *)
(* greatest total capacity, named by its leader                            *)
LargestGroup(systems, keys, tie) ==
    CHOOSE i \in GroupLeaders(keys) : \A j \in GroupLeaders(keys) \ {i} :
        \/ GroupCapacity(systems, keys, keys[i]) > GroupCapacity(systems, keys, keys[j])
        \/ /\ GroupCapacity(systems, keys, keys[i]) = GroupCapacity(systems, keys, keys[j])
           /\ (IF tie = "lo" THEN i < j ELSE i > j)

(* mutant of RoundEfficiency: always two decimals                          *)
RoundEfficiency_TwoPlaces(sum, total, places) == PyRound(sum, total)

(* round(sum / total, places) of an efficiency in hundredths               *)
RoundEfficiency(sum, total, places) ==
    IF places = 2 THEN PyRound(sum, total) ELSE 10 * PyRound(sum, 10 * total)

HeatingRoundPlaces(type) == IF type \in {"heat_pump", "gchp"} THEN 1 ELSE 2

(* whether rounding some group divides by a total capacity of zero         *)
SomeGroupDividesByZero(systems, keys) ==
    \E i \in GroupLeaders(keys) :
        systems[i].efficiency_method # "None" /\ GroupCapacity(systems, keys, keys[i]) = 0

ClampYear(year, minyear) == IF year < minyear THEN minyear ELSE year

HeatingMinYear == 1970

CoolingMinYear == 1970

(* the record of the largest group after rounding                          *)
CombinedHeating(systems, keys, tie) ==
    LET i == LargestGroup(systems, keys, tie)
        g == systems[i]
        total == GroupCapacity(systems, keys, keys[i])
        sum == GroupSum(systems, keys, keys[i])
        base == [type |-> g.type, fuel_primary |-> g.fuel_primary]
    IN IF g.efficiency_method = "None"
       THEN Raise("KeyError", "efficiency_method")
       ELSE IF g.efficiency_method = "user"
       THEN Ok(base @@ [efficiency_method |-> "user",
                        efficiency |-> RoundEfficiency(sum, total, HeatingRoundPlaces(g.type))])
       ELSE Ok(base @@ [efficiency_method |-> "shipment_weighted",
                        year |-> ClampYear(PyRound(sum, total), HeatingMinYear)])

CombinedCooling(systems, keys, tie) ==
    LET i == LargestGroup(systems, keys, tie)
        g == systems[i]
        total == GroupCapacity(systems, keys, keys[i])
        sum == GroupSum(systems, keys, keys[i])
    IN IF g.efficiency_method = "user"
       THEN Ok([type |-> g.type, efficiency_method |-> "user",
                efficiency |-> RoundEfficiency(sum, total, 1)])
       ELSE Ok([type |-> g.type, efficiency_method |-> "shipment_weighted",
                year |-> ClampYear(PyRound(sum, total), CoolingMinYear)])

NoHeatingCapacityMessage ==
    "If a primary heating system is not defined, each heating system must have a capacity"

NoCoolingCapacityMessage ==
    "If a primary cooling system is not defined, each cooling system must have a capacity"

get_systems_heating(plant, primary, tie) ==
    LET collected == HeatingSystemsToCombine(plant, primary)
    IN IF Failed(collected) THEN collected
       ELSE LET filled == FillCapacity(collected.val, NoHeatingCapacityMessage)
            IN IF Failed(filled) THEN filled
               ELSE LET systems == filled.val
                        keys == [i \in 1..Len(systems) |-> HeatingGroupKey(systems[i])]
                    IN IF SomeGroupDividesByZero(systems, keys)
                       THEN Raise("ZeroDivisionError", "totalcapacity")
                       ELSE IF Len(systems) = 0 THEN Ok([type |-> "none"])
                       ELSE CombinedHeating(systems, keys, tie)

get_systems_cooling(plant, primary, tie) ==
    LET collected == CoolingSystemsToCombine(plant, primary)
    IN IF Failed(collected) THEN collected
       ELSE LET filled == FillCapacity(collected.val, NoCoolingCapacityMessage)
            IN IF Failed(filled) THEN filled
               ELSE LET systems == filled.val
                        keys == [i \in 1..Len(systems) |-> CoolingGroupKey(systems[i])]
                    IN IF SomeGroupDividesByZero(systems, keys)
                       THEN Raise("ZeroDivisionError", "totalcapacity")
                       ELSE IF Len(systems) = 0 THEN Ok([type |-> "none"])
                       ELSE CombinedCooling(systems, keys, tie)


---------------------------------------------------------------------------
(* Specification SpecHVAC: _get_systems_heating, then _get_systems_cooling *)
(* on the same HVAC plant (each is applied whatever the other returned).   *)
(* Efficiencies are in hundredths and exact; the sample plants have no     *)
(* capacity-weighted mean that falls half way between two rounded values,  *)
(* where the binary floating point representation would decide.            *)

MaxUnits == 2

Eff(units, value) == <<[units |-> units, value |-> value]>>

HeatingSystem(htype, fuel, heff, year, hcap) ==
    [tag |-> "HeatingSystem", hptype |-> None, fuel |-> Some(fuel), htype |-> htype,
     ctype |-> None, heff |-> heff, ceff |-> <<>>, year |-> year,
     hcap |-> hcap, ccap |-> None]

CoolingSystem(ctype, ceff, year, ccap) ==
    [tag |-> "CoolingSystem", hptype |-> None, fuel |-> None, htype |-> "",
     ctype |-> Some(ctype), heff |-> <<>>, ceff |-> ceff, year |-> year,
     hcap |-> None, ccap |-> ccap]

HeatPump(hptype, heff, ceff, hcap, ccap) ==
    [tag |-> "HeatPump", hptype |-> Some(hptype), fuel |-> None, htype |-> "",
     ctype |-> None, heff |-> heff, ceff |-> ceff, year |-> None,
     hcap |-> hcap, ccap |-> ccap]

HeatingSamples ==
    {HeatingSystem("Furnace", "natural gas", Eff("AFUE", 95), None, c) :
        c \in {None, Some(50000)}}
    \cup {HeatingSystem("Furnace", "natural gas", Eff("AFUE", 90), None, c) :
            c \in {None, Some(30000)}}
    \cup {HeatingSystem("Boiler", "fuel oil", <<>>, Some(y), Some(c)) :
            y \in {1965, 2005}, c \in {30000, 50000}}
    \cup {HeatingSystem("PortableHeater", "natural gas", Eff("AFUE", 90), None, Some(30000)),
          HeatingSystem("Stove", "natural gas", Eff("AFUE", 90), None, Some(30000)),
          HeatingSystem("ElectricResistance", "electricity", <<>>, None, Some(30000)),
          HeatingSystem("Furnace", "wood", Eff("AFUE", 90), None, Some(30000)),
          HeatingSystem("Furnace", "natural gas", <<>>, None, Some(30000))}

HeatPumpSamples ==
    {HeatPump("air-to-air", Eff("HSPF", 820), Eff("SEER", 1450), Some(50000), Some(30000)),
     HeatPump("air-to-air", Eff("HSPF", 910), Eff("SEER", 1300), Some(30000), Some(50000)),
     HeatPump("ground-to-air", Eff("COP", 350), Eff("EER", 1500), None, None)}

CoolingSamples ==
    {CoolingSystem("central air conditioning", Eff("SEER", 1300), None, Some(30000)),
     CoolingSystem("central air conditioning", Eff("SEER", 1450), None, Some(50000)),
     CoolingSystem("central air conditioning", Eff("SEER", 1450), None, None),
     CoolingSystem("room air conditioner", <<>>, Some(1965), Some(50000)),
     CoolingSystem("evaporative cooler", <<>>, Some(2005), Some(30000)),
     CoolingSystem("central air conditioning", <<>>, None, Some(30000))}

PlantSamples == HeatingSamples \cup HeatPumpSamples \cup CoolingSamples

HVACInputs(tie) ==
    {[plant |-> p, primaryHeating |-> ph, primaryCooling |-> pcl, tie |-> tie] :
        p \in SeqsUpTo(PlantSamples, MaxUnits),
        ph \in {None, Some(1)}, pcl \in {None, Some(MaxUnits)}}

InitHVAC ==
    /\ pc = "heating"
    /\ \E tie \in TiePolicies :
          inp \in {i \in HVACInputs(tie) :
                     /\ ~IsNone(i.primaryHeating) => Len(i.plant) >= 1
                     /\ ~IsNone(i.primaryCooling) => Len(i.plant) >= Val(i.primaryCooling)}
    /\ out = [heating |-> NoOut, cooling |-> NoOut]

GetSystemsHeating ==
    /\ pc = "heating"
    /\ out' = [out EXCEPT !.heating =
                  get_systems_heating(inp.plant, inp.primaryHeating, inp.tie)]
    /\ pc' = "cooling"
    /\ UNCHANGED inp

GetSystemsCooling ==
    /\ pc = "cooling"
    /\ out' = [out EXCEPT !.cooling =
                  get_systems_cooling(inp.plant, inp.primaryCooling, inp.tie)]
    /\ pc' = "done"
    /\ UNCHANGED inp

NextHVAC == GetSystemsHeating \/ GetSystemsCooling

SpecHVAC == InitHVAC /\ [][NextHVAC]_vars


(* the systems that are combined, with their capacities filled in          *)
HeatingCombined ==
    LET c == HeatingSystemsToCombine(inp.plant, inp.primaryHeating)
    IN IF Failed(c) THEN <<>>
       ELSE LET f == FillCapacity(c.val, NoHeatingCapacityMessage)
            IN IF Failed(f) THEN <<>> ELSE f.val

CoolingCombined ==
    LET c == CoolingSystemsToCombine(inp.plant, inp.primaryCooling)
    IN IF Failed(c) THEN <<>>
       ELSE LET f == FillCapacity(c.val, NoCoolingCapacityMessage)
            IN IF Failed(f) THEN <<>> ELSE f.val

(* r is a multiple of unit nearest to the capacity-weighted mean of the    *)
(* efficiencies of systems[i], i in members (all in hundredths)            *)
IsRoundedWeightedMean(r, systems, members, unit) ==
    LET C == SeqSum([i \in 1..Len(systems) |->
                       IF i \in members THEN Val(systems[i].capacity) ELSE 0])
        S == SeqSum([i \in 1..Len(systems) |->
                       IF i \in members
                       THEN systems[i].efficiency * Val(systems[i].capacity) ELSE 0])
    IN members # {} /\ r % unit = 0 /\ 2 * Abs(r * C - S) <= unit * C

SameResult(a, b) == a.err = b.err /\ a.val = b.val

ScenarioPlant ==
    <<HeatingSystem("Furnace", "natural gas", Eff("AFUE", 95), None, Some(50000)),
      HeatingSystem("Furnace", "natural gas", Eff("AFUE", 90), None, Some(30000))>>

(* C8: a combined efficiency under method "user" is the capacity-weighted  *)
(* mean of the efficiencies of the systems of the winning group (same type,*)
(* fuel and method), rounded to two decimals for heating (one decimal for  *)
(* heat_pump and gchp) and to one decimal for cooling; furnaces of 50000   *)
(* and 30000 Btu/h with AFUE 0.95 and 0.90 combine to 0.93.                *)
C8_CombinedEfficiencyIsWeightedMean ==
    pc = "done" =>
      /\ (out.heating.err = "ok" /\ out.heating.val.type # "none"
            /\ out.heating.val.efficiency_method = "user")
         => LET h == out.heating.val
                systems == HeatingCombined
            IN IsRoundedWeightedMean(h.efficiency, systems,
                  {i \in 1..Len(systems) :
                      /\ systems[i].type = h.type
                      /\ systems[i].fuel_primary = h.fuel_primary
                      /\ systems[i].efficiency_method = "user"},
                  IF h.type \in {"heat_pump", "gchp"} THEN 10 ELSE 1)
      /\ (out.cooling.err = "ok" /\ out.cooling.val.type # "none"
            /\ out.cooling.val.efficiency_method = "user")
         => LET c == out.cooling.val
                systems == CoolingCombined
            IN IsRoundedWeightedMean(c.efficiency, systems,
                  {i \in 1..Len(systems) :
                      /\ systems[i].type = c.type
                      /\ systems[i].efficiency_method = "user"},
                  10)
      /\ (inp.plant = ScenarioPlant /\ IsNone(inp.primaryHeating))
         => SameResult(out.heating,
                       Ok([type |-> "central_furnace", fuel_primary |-> "natural_gas",
                           efficiency_method |-> "user", efficiency |-> 93]))

(* two furnaces were combined to 0.93 and no cooling system was there      *)
C8_Witness ==
    /\ pc = "done"
    /\ inp.plant = ScenarioPlant
    /\ IsNone(inp.primaryHeating)
    /\ out.heating.err = "ok"
    /\ out.heating.val.efficiency = 93
    /\ out.cooling.err = "ok"
    /\ out.cooling.val.type = "none"

(* two heat pumps were combined: heating to one decimal, cooling too       *)
C8_WitnessHeatPumps ==
    /\ pc = "done"
    /\ Len(inp.plant) = 2
    /\ \A i \in 1..2 : inp.plant[i].tag = "HeatPump"
    /\ out.heating.err = "ok"
    /\ out.heating.val.type = "heat_pump"
    /\ out.heating.val.efficiency = 850
    /\ out.cooling.err = "ok"
    /\ out.cooling.val.efficiency = 1360

HeatingUnits == SelectSeq(inp.plant, IsHeatingUnit)

CoolingUnits == SelectSeq(inp.plant, IsCoolingUnit)

ClassifiesAsHeating(u) == ~Failed(get_heating_system_type(u))

ClassifiesAsCooling(u) == ~Failed(get_cooling_system_type(u))

(* C9: with no primary system designated, a unit whose classification      *)
(* fails is left out as long as another unit classifies: the result is the *)
(* one obtained from the units that classify.  When every unit fails, the  *)
(* failure of the last unit is the result.                                 *)
C9_ClassificationFailureTolerated ==
    pc = "done" =>
      /\ (IsNone(inp.primaryHeating)
            /\ \E i \in 1..Len(HeatingUnits) : ~ClassifiesAsHeating(HeatingUnits[i]))
         => LET good == SelectSeq(HeatingUnits, ClassifiesAsHeating)
            IN IF Len(good) > 0
               THEN SameResult(out.heating, get_systems_heating(good, None, inp.tie))
               ELSE SameResult(out.heating,
                               get_heating_system_type(HeatingUnits[Len(HeatingUnits)]))
      /\ (IsNone(inp.primaryCooling)
            /\ \E i \in 1..Len(CoolingUnits) : ~ClassifiesAsCooling(CoolingUnits[i]))
         => LET good == SelectSeq(CoolingUnits, ClassifiesAsCooling)
            IN IF Len(good) > 0
               THEN SameResult(out.cooling, get_systems_cooling(good, None, inp.tie))
               ELSE SameResult(out.cooling,
                               get_cooling_system_type(CoolingUnits[Len(CoolingUnits)]))

(* the part of C9 the code keeps: the same, for the units whose            *)
(* classification raises TranslationError and when no unit raises another  *)
(* exception                                                               *)
C9_TranslationErrorTolerated ==
    (/\ pc = "done"
     /\ IsNone(inp.primaryHeating)
     /\ \A i \in 1..Len(HeatingUnits) :
           get_heating_system_type(HeatingUnits[i]).err \in {"ok", "TranslationError"}
     /\ \E i \in 1..Len(HeatingUnits) : ~ClassifiesAsHeating(HeatingUnits[i]))
    => LET good == SelectSeq(HeatingUnits, ClassifiesAsHeating)
       IN IF Len(good) > 0
          THEN SameResult(out.heating, get_systems_heating(good, None, inp.tie))
          ELSE SameResult(out.heating,
                          get_heating_system_type(HeatingUnits[Len(HeatingUnits)]))

(* the plant with every missing capacity replaced by the placeholder 1.0   *)
WithUnitCapacity(plant) ==
    [i \in 1..Len(plant) |->
        [plant[i] EXCEPT !.hcap = IF IsNone(@) THEN Some(1) ELSE @,
                         !.ccap = IF IsNone(@) THEN Some(1) ELSE @]]

(* C10: when a system to combine has no capacity: a sole system is         *)
(* combined as if its capacity were 1.0, so is a designated primary        *)
(* system, and with several systems the result is the TranslationError     *)
(* that says each system must have a capacity.                             *)
C10_MissingCapacity ==
    pc = "done" =>
      /\ LET c == HeatingSystemsToCombine(inp.plant, inp.primaryHeating)
         IN (~Failed(c) /\ \E i \in 1..Len(c.val) : IsNone(c.val[i].capacity))
            => IF ~IsNone(inp.primaryHeating) \/ Len(c.val) = 1
               THEN /\ out.heating.err # "TranslationError"
                    /\ SameResult(out.heating,
                                  get_systems_heating(WithUnitCapacity(inp.plant),
                                                      inp.primaryHeating, inp.tie))
               ELSE SameResult(out.heating,
                               Raise("TranslationError", NoHeatingCapacityMessage))
      /\ LET c == CoolingSystemsToCombine(inp.plant, inp.primaryCooling)
         IN (~Failed(c) /\ \E i \in 1..Len(c.val) : IsNone(c.val[i].capacity))
            => IF ~IsNone(inp.primaryCooling) \/ Len(c.val) = 1
               THEN /\ out.cooling.err # "TranslationError"
                    /\ SameResult(out.cooling,
                                  get_systems_cooling(WithUnitCapacity(inp.plant),
                                                      inp.primaryCooling, inp.tie))
               ELSE SameResult(out.cooling,
                               Raise("TranslationError", NoCoolingCapacityMessage))

(* two furnaces, one without capacity, no primary system: the error        *)
C10_Witness ==
    /\ pc = "done"
    /\ IsNone(inp.primaryHeating)
    /\ Len(HeatingUnits) = 2
    /\ \A i \in 1..2 : ClassifiesAsHeating(HeatingUnits[i])
    /\ \E i \in 1..2 : IsNone(HeatingUnits[i].hcap)
    /\ SameResult(out.heating, Raise("TranslationError", NoHeatingCapacityMessage))


---------------------------------------------------------------------------
(* _get_building_zone_floor                                                *)
(*                                                                         *)
(* A foundation is [ftype, flag, walls, slabs, floors]: the name of the    *)
(* FoundationType child, its Conditioned / Vented flag, the FoundationWall *)
(* elements [area, length, height, r], the Slab elements [area, perimeter, *)
(* r] and the FrameFloor elements [area, r].  r is the sum of the nominal  *)
(* R-values of the insulation layers (0 when there is none), a whole       *)
(* number; effective R-values are in tenths.                               *)

fw_eff_rvalues == (0 :> 40) @@ (5 :> 79) @@ (11 :> 116) @@ (19 :> 196)

floor_eff_rvalues ==
    (0 :> 40) @@ (11 :> 158) @@ (13 :> 178) @@ (15 :> 198) @@ (19 :> 238) @@
    (21 :> 258) @@ (25 :> 318) @@ (30 :> 378) @@ (38 :> 428)

(* min(keys, key=lambda k: abs(x - k)) for x = num/den tenths, den > 0:    *)
(* of two keys at the same distance the one the iteration meets first      *)
NearestKey(keys, num, den, tie) ==
    CHOOSE k \in keys : \A j \in keys \ {k} :
        \/ Abs(num - 10 * k * den) < Abs(num - 10 * j * den)
        \/ /\ Abs(num - 10 * k * den) = Abs(num - 10 * j * den)
           /\ (IF tie = "lo" THEN k < j ELSE k > j)

AreaOrZero(o) == IF IsNone(o) THEN 0 ELSE Val(o)

SumOfAreas(els) == SeqSum([i \in 1..Len(els) |-> AreaOrZero(els[i].area)])

(* max([sum(Slab/Area), sum(FrameFloor/Area)])                             *)
FoundationAreaKey(fnd) ==
    IF SumOfAreas(fnd.slabs) >= SumOfAreas(fnd.floors)
    THEN SumOfAreas(fnd.slabs) ELSE SumOfAreas(fnd.floors)

(* max(foundations, key=...): the first of the largest                     *)
SelectedFoundation(foundations) ==
    foundations[CHOOSE i \in 1..Len(foundations) : \A j \in 1..Len(foundations) :
                  \/ FoundationAreaKey(foundations[i]) > FoundationAreaKey(foundations[j])
                  \/ /\ FoundationAreaKey(foundations[i]) = FoundationAreaKey(foundations[j])
                     /\ i <= j]

foundation_type(fnd) ==
    CASE fnd.ftype = "Basement" ->
            Ok(IF fnd.flag THEN "cond_basement" ELSE "uncond_basement")
      [] fnd.ftype = "Crawlspace" ->
            Ok(IF fnd.flag THEN "vented_crawl" ELSE "unvented_crawl")
      [] fnd.ftype = "SlabOnGrade" -> Ok("slab_on_grade")
      [] fnd.ftype = "Garage" -> Ok("unvented_crawl")
      [] fnd.ftype = "Ambient" -> Ok("vented_crawl")
      [] OTHER -> Raise("TranslationError",
                        "HEScore does not have a foundation type analogous to: " \o fnd.ftype)

(* fwarea: Area, else Length * Height, else None                           *)
FoundationWallArea(fwall) ==
    IF ~IsNone(fwall.area) THEN fwall.area
    ELSE IF IsNone(fwall.length) \/ IsNone(fwall.height) THEN None
    ELSE Some(Val(fwall.length) * Val(fwall.height))

(* the area-weighted mean of the effective R-values without the 4.0 taken  *)
(* off                                                                     *)
WeightedEffective_Gross(weights, rs, eff, keys, tie, message) ==
    IF Len(weights) > 1 /\ \E i \in 1..Len(weights) : IsNone(weights[i])
    THEN Raise("TranslationError", message)
    ELSE LET w == [i \in 1..Len(weights) |->
                     IF IsNone(weights[i]) THEN 1 ELSE Val(weights[i])]
             total == SeqSum(w)
             ra == SeqSum([i \in 1..Len(w) |->
                             eff[NearestKey(keys, 10 * rs[i], 1, tie)] * w[i]])
         IN IF total = 0 THEN Raise("ZeroDivisionError", "float division by zero")
            ELSE Ok([num |-> ra, den |-> total])

(* The area-weighted mean of the effective R-values of the elements, less  *)
(* 4.0, as [num, den]: weights[i] is the optional weight of element i (a   *)
(* sole element without weight weighs 1.0), rs[i] its nominal R-value,     *)
(* eff the table of effective values over the keys.                        *)
WeightedEffective(weights, rs, eff, keys, tie, message) ==
    IF Len(weights) > 1 /\ \E i \in 1..Len(weights) : IsNone(weights[i])
    THEN Raise("TranslationError", message)
    ELSE LET w == [i \in 1..Len(weights) |->
                     IF IsNone(weights[i]) THEN 1 ELSE Val(weights[i])]
             total == SeqSum(w)
             ra == SeqSum([i \in 1..Len(w) |->
                             eff[NearestKey(keys, 10 * rs[i], 1, tie)] * w[i]])
         IN IF total = 0 THEN Raise("ZeroDivisionError", "float division by zero")
            ELSE Ok([num |-> ra - 40 * total, den |-> total])

DigitChars == <<"0", "1", "2", "3", "4", "5", "6", "7", "8", "9">>

(* '%02d' % n for 0 <= n <= 99                                             *)
TwoDigits(n) == DigitChars[(n \div 10) + 1] \o DigitChars[(n % 10) + 1]

(* foundation_insulation_level, or the exception                           *)
foundation_insulation_level(fnd, type, tie) ==
    IF Len(fnd.walls) > 0
    THEN IF type = "slab_on_grade"
         THEN Raise("TranslationError",
                    "The house is a slab on grade foundation, but has foundation walls.")
         ELSE LET keys == DOMAIN fw_eff_rvalues \ {5}
                  x == WeightedEffective(
                          [i \in 1..Len(fnd.walls) |-> FoundationWallArea(fnd.walls[i])],
                          [i \in 1..Len(fnd.walls) |-> fnd.walls[i].r],
                          fw_eff_rvalues, keys, tie,
                          "If there is more than one FoundationWall, an Area is required for each.")
              IN IF Failed(x) THEN x ELSE Ok(NearestKey(keys, x.val.num, x.val.den, tie))
    ELSE IF type = "slab_on_grade"
    THEN LET keys == DOMAIN fw_eff_rvalues \ {11, 19}
             x == WeightedEffective(
                     [i \in 1..Len(fnd.slabs) |-> fnd.slabs[i].perimeter],
                     [i \in 1..Len(fnd.slabs) |-> fnd.slabs[i].r],
                     fw_eff_rvalues, keys, tie,
                     "If there is more than one Slab, an ExposedPerimeter is required for each.")
         IN IF Failed(x) THEN x ELSE Ok(NearestKey(keys, x.val.num, x.val.den, tie))
    ELSE Ok(NearestKey(DOMAIN fw_eff_rvalues, 0, 1, tie))

(* floor_assembly_code, or the exception                                   *)
floor_assembly_code(fnd, tie) ==
    IF Len(fnd.floors) > 0
    THEN LET keys == DOMAIN floor_eff_rvalues
             x == WeightedEffective(
                     [i \in 1..Len(fnd.floors) |-> fnd.floors[i].area],
                     [i \in 1..Len(fnd.floors) |-> fnd.floors[i].r],
                     floor_eff_rvalues, keys, tie,
                     "If there is more than one FrameFloor, an Area is required for each.")
         IN IF Failed(x) THEN x
            ELSE Ok("efwf" \o TwoDigits(NearestKey(keys, x.val.num, x.val.den, tie)) \o "ca")
    ELSE Ok("efwf00ca")

get_building_zone_floor(foundations, tie) ==
    IF Len(foundations) = 0
    THEN Raise("ValueError", "max() arg is an empty sequence")
    ELSE LET foundation == SelectedFoundation(foundations)
             type == foundation_type(foundation)
         IN IF Failed(type) THEN type
            ELSE LET level == foundation_insulation_level(foundation, type.val, tie)
                     code == floor_assembly_code(foundation, tie)
                 IN IF Failed(level) THEN level
                    ELSE IF Failed(code) THEN code
                    ELSE Ok([foundation_type |-> type.val,
                             foundation_insulation_level |-> level.val,
                             floor_assembly_code |-> code.val])


---------------------------------------------------------------------------
(* Specification SpecFloor: _get_building_zone_floor on the foundations of *)
(* a building.                                                             *)

MaxFloorR == 40

MaxFoundationR == 22

MaxArea == 3

FoundationTypes ==
    {"Basement", "Crawlspace", "SlabOnGrade", "Garage", "Ambient", "AboveApartment"}

Foundation(ftype, flag, walls, slabs, floors) ==
    [ftype |-> ftype, flag |-> flag, walls |-> walls, slabs |-> slabs, floors |-> floors]

AreaChoices == {None, Some(0), Some(1), Some(MaxArea)}

PositiveAreaChoices == {None, Some(1), Some(MaxArea)}

(* the buildings of a set, each with the order dicts are iterated in      *)
FloorInputsOf(tie, buildings) == {[foundations |-> b, tie |-> tie] : b \in buildings}

(* one foundation with a single frame floor of any whole R-value           *)
OneFrameFloorBuildings(tie) ==
    FloorInputsOf(tie,
    {<<Foundation(t, f, <<>>, <<>>, <<[area |-> a, r |-> r]>>)>> :
        t \in FoundationTypes, f \in BOOLEAN, a \in AreaChoices, r \in 0..MaxFloorR})

(* a basement with two frame floors of catalog R-values                    *)
TwoFrameFloorBuildings(tie) ==
    FloorInputsOf(tie,
    {<<Foundation("Basement", FALSE, <<>>, <<>>,
                  <<[area |-> a1, r |-> r1], [area |-> a2, r |-> r2]>>)>> :
        a1 \in PositiveAreaChoices, a2 \in PositiveAreaChoices,
        r1 \in DOMAIN floor_eff_rvalues, r2 \in DOMAIN floor_eff_rvalues})

(* one foundation with a single foundation wall                            *)
OneFoundationWallBuildings(tie) ==
    FloorInputsOf(tie,
    {<<Foundation(t, FALSE,
                  <<[area |-> a, length |-> lh[1], height |-> lh[2], r |-> r]>>,
                  <<>>, <<>>)>> :
        t \in {"Basement", "Crawlspace", "SlabOnGrade"}, a \in {None, Some(0), Some(2)},
        lh \in {<<None, None>>, <<Some(2), None>>, <<Some(2), Some(MaxArea)>>},
        r \in 0..MaxFoundationR})

TwoFoundationWallBuildings(tie) ==
    FloorInputsOf(tie,
    {<<Foundation("Basement", TRUE,
                  <<[area |-> a1, length |-> None, height |-> None, r |-> r1],
                    [area |-> a2, length |-> None, height |-> None, r |-> r2]>>,
                  <<>>, <<>>)>> :
        a1 \in PositiveAreaChoices, a2 \in PositiveAreaChoices,
        r1 \in DOMAIN fw_eff_rvalues, r2 \in DOMAIN fw_eff_rvalues})

(* a slab on grade with no, one or two slabs                               *)
SlabBuildings(tie) ==
    FloorInputsOf(tie,
    {<<Foundation("SlabOnGrade", FALSE, <<>>, <<>>, <<>>)>>}
    \cup {<<Foundation("SlabOnGrade", FALSE, <<>>,
                       <<[area |-> Some(1), perimeter |-> p, r |-> r]>>, <<>>)>> :
            p \in AreaChoices, r \in 0..MaxFoundationR}
    \cup {<<Foundation("SlabOnGrade", FALSE, <<>>,
                       <<[area |-> Some(1), perimeter |-> p1, r |-> r1],
                         [area |-> Some(1), perimeter |-> p2, r |-> r2]>>, <<>>)>> :
            p1 \in PositiveAreaChoices, p2 \in PositiveAreaChoices,
            r1 \in {0, 5}, r2 \in {0, 5}})

(* a crawlspace under a frame floor beside a slab on grade, or none at all *)
TwoFoundationBuildings(tie) ==
    FloorInputsOf(tie,
    {<<>>}
    \cup {<<Foundation("Crawlspace", TRUE, <<>>, <<>>, <<[area |-> a1, r |-> 19]>>),
            Foundation("SlabOnGrade", FALSE, <<>>,
                       <<[area |-> a2, perimeter |-> Some(2), r |-> 5]>>, <<>>)>> :
            a1 \in AreaChoices, a2 \in AreaChoices})

FloorInputs(tie) ==
    OneFrameFloorBuildings(tie) \cup TwoFrameFloorBuildings(tie)
    \cup OneFoundationWallBuildings(tie) \cup TwoFoundationWallBuildings(tie)
    \cup SlabBuildings(tie) \cup TwoFoundationBuildings(tie)

InitFloor ==
    /\ pc = "zone_floor"
    /\ \E tie \in TiePolicies : inp \in FloorInputs(tie)
    /\ out = NoOut

GetBuildingZoneFloor ==
    /\ pc = "zone_floor"
    /\ out' = get_building_zone_floor(inp.foundations, inp.tie)
    /\ pc' = "done"
    /\ UNCHANGED inp

SpecFloor == InitFloor /\ [][GetBuildingZoneFloor]_vars

(* C3: when the selected foundation has exactly one FrameFloor whose       *)
(* nominal R-value r is one of 0, 11, 13, 15, 19, 21, 25, 30, 38, the      *)
(* floor_assembly_code returned is "efwf", the two digits of r, "ca".      *)
C3_FrameFloorRoundTrip ==
    (/\ pc = "done"
     /\ Len(inp.foundations) > 0
     /\ Len(SelectedFoundation(inp.foundations).floors) = 1
     /\ SelectedFoundation(inp.foundations).floors[1].r \in {0, 11, 13, 15, 19, 21, 25, 30, 38})
    => /\ out.err = "ok"
       /\ out.val.floor_assembly_code
            = "efwf" \o TwoDigits(SelectedFoundation(inp.foundations).floors[1].r) \o "ca"

(* the part of C3 the code keeps: the same for every catalog value but 25, *)
(* when the translation of the floor returns                               *)
C3_FrameFloorRoundTripBut25 ==
    (/\ pc = "done"
     /\ Len(inp.foundations) > 0
     /\ Len(SelectedFoundation(inp.foundations).floors) = 1
     /\ SelectedFoundation(inp.foundations).floors[1].r \in {0, 11, 13, 15, 19, 21, 30, 38}
     /\ out.err = "ok")
    => out.val.floor_assembly_code
         = "efwf" \o TwoDigits(SelectedFoundation(inp.foundations).floors[1].r) \o "ca"

(* a basement over a single frame floor of R-25 and area 1 is given R-30   *)
C3_DriftAt25 ==
    /\ pc = "done"
    /\ inp.foundations =
         <<Foundation("Basement", FALSE, <<>>, <<>>, <<[area |-> Some(1), r |-> 25]>>)>>
    /\ out.err = "ok"
    /\ out.val.floor_assembly_code = "efwf30ca"


---------------------------------------------------------------------------
(* get_wall_assembly_code                                                  *)
(*                                                                         *)
(* A wall is [id, wtype, eps, ove, layers, siding, area, azimuth,          *)
(* orientation]: wtype the name of the WallType child, eps and ove the     *)
(* ExpandedPolystyreneSheathing and OptimumValueEngineering flags, layers  *)
(* the insulation layers [rigid, continuous, r] with r the optional        *)
(* NominalRValue (a whole number).  An assembly code is the sequence of    *)
(* its characters, so that the code's slices [2:4], [4:6], [6:8] are       *)
(* SubSeq(code, 3, 4), SubSeq(code, 5, 6), SubSeq(code, 7, 8).             *)

sidingmap ==
    ("wood siding" :> Some("wo")) @@ ("stucco" :> Some("st")) @@
    ("synthetic stucco" :> Some("st")) @@ ("vinyl siding" :> Some("vi")) @@
    ("aluminum siding" :> Some("al")) @@ ("brick veneer" :> Some("br")) @@
    ("asbestos siding" :> Some("wo")) @@ ("fiber cement siding" :> Some("wo")) @@
    ("composite shingle siding" :> Some("wo")) @@ ("masonite siding" :> Some("wo")) @@
    ("other" :> None)

(* the characters of the two-letter construction and siding codes          *)
CodeChars ==
    [wf |-> <<"w", "f">>, ps |-> <<"p", "s">>, ov |-> <<"o", "v">>, br |-> <<"b", "r">>,
     cb |-> <<"c", "b">>, sb |-> <<"s", "b">>, wo |-> <<"w", "o">>, st |-> <<"s", "t">>,
     vi |-> <<"v", "i">>, al |-> <<"a", "l">>, nn |-> <<"n", "n">>]

CodeOfChars(chars) == CHOOSE c \in DOMAIN CodeChars : CodeChars[c] = chars

(* 'ew%s%02d%s' % (wallconstype, rvalue, sidingtype), 0 <= rvalue <= 99    *)
FormatWallCode(wallconstype, rvalue, sidingtype) ==
    <<"e", "w">> \o CodeChars[wallconstype]
      \o <<DigitChars[(rvalue \div 10) + 1], DigitChars[(rvalue % 10) + 1]>>
      \o CodeChars[sidingtype]

(* int(chars) of two digit characters                                      *)
IntOfDigits(chars) ==
    10 * (IndexOf(DigitChars, chars[1]) - 1) + (IndexOf(DigitChars, chars[2]) - 1)

(* the key without abs(): the least of vals                                *)
round_to_nearest_Signed(x, vals) ==
    vals[CHOOSE i \in 1..Len(vals) : \A j \in 1..Len(vals) : vals[i] <= vals[j]]

(* round_to_nearest(x, vals): the first of the nearest in tuple order      *)
round_to_nearest(x, vals) ==
    vals[CHOOSE i \in 1..Len(vals) : \A j \in 1..Len(vals) :
           \/ Abs(x - vals[i]) < Abs(x - vals[j])
           \/ Abs(x - vals[i]) = Abs(x - vals[j]) /\ i <= j]

(* the sum of the NominalRValue of the layers; float(None) is a TypeError  *)
SumOfLayers(layers) ==
    IF \E i \in 1..Len(layers) : IsNone(layers[i].r)
    THEN Raise("TypeError", "float() argument must be a string or a number")
    ELSE Ok(SeqSum([i \in 1..Len(layers) |-> Val(layers[i].r)]))

(* every continuous layer, rigid or not                                    *)
IsRigidContinuous_AnyContinuous(lyr) == lyr.continuous

IsRigidContinuous(lyr) == lyr.rigid /\ lyr.continuous

WoodStudCode(hpxmlwall) ==
    LET has_rigid_ins == \E i \in 1..Len(hpxmlwall.layers) :
                            IsRigidContinuous(hpxmlwall.layers[i])
        cavity_rvalue == SumOfLayers(SelectSeq(hpxmlwall.layers,
                                               LAMBDA lyr : ~IsRigidContinuous(lyr)))
        wallconstype == IF hpxmlwall.eps \/ has_rigid_ins THEN "ps"
                        ELSE IF hpxmlwall.ove THEN "ov" ELSE "wf"
        vals == IF wallconstype = "ov" THEN <<19, 21, 27, 33, 38>>
                ELSE <<0, 3, 7, 11, 13, 15, 19, 21>>
    IN IF Failed(cavity_rvalue) THEN cavity_rvalue
       ELSE IF IsNone(hpxmlwall.siding) \/ Val(hpxmlwall.siding) \notin DOMAIN sidingmap
       THEN Raise("TranslationError",
                  "Wall " \o hpxmlwall.id \o ": Exterior finish information is missing")
       ELSE IF IsNone(sidingmap[Val(hpxmlwall.siding)])
       THEN Raise("TranslationError",
                  "Wall " \o hpxmlwall.id
                    \o ": There is no HEScore wall siding equivalent for the HPXML option: "
                    \o Val(hpxmlwall.siding))
       ELSE Ok(FormatWallCode(wallconstype, round_to_nearest(cavity_rvalue.val, vals),
                              Val(sidingmap[Val(hpxmlwall.siding)])))

(* the siding of a masonry wall taken from sidingmap without the check     *)
MasonryCode_AnySiding(hpxmlwall) ==
    LET rvalue == SumOfLayers(hpxmlwall.layers)
    IN IF Failed(rvalue) THEN rvalue
       ELSE IF IsNone(hpxmlwall.siding)
       THEN Ok(FormatWallCode("cb", round_to_nearest(rvalue.val, <<0, 3, 6>>), "nn"))
       ELSE IF Val(hpxmlwall.siding) \notin DOMAIN sidingmap
       THEN Raise("KeyError", Val(hpxmlwall.siding))
       ELSE IF IsNone(sidingmap[Val(hpxmlwall.siding)])
       THEN Raise("TypeError", "%s format: a string is required")
       ELSE Ok(FormatWallCode("cb", round_to_nearest(rvalue.val, <<0, 3, 6>>),
                              Val(sidingmap[Val(hpxmlwall.siding)])))

MasonryCode(hpxmlwall) ==
    LET rvalue == SumOfLayers(hpxmlwall.layers)
    IN IF Failed(rvalue) THEN rvalue
       ELSE IF IsNone(hpxmlwall.siding)
       THEN Ok(FormatWallCode("cb", round_to_nearest(rvalue.val, <<0, 3, 6>>), "nn"))
       ELSE IF Val(hpxmlwall.siding) \notin DOMAIN sidingmap
       THEN Raise("KeyError", Val(hpxmlwall.siding))
       ELSE IF sidingmap[Val(hpxmlwall.siding)] \notin {Some("st"), Some("br")}
       THEN Raise("TranslationError",
                  "Wall " \o hpxmlwall.id \o ": is a CMU and needs a siding of stucco, brick, "
                    \o "or none to translate to HEScore. It has a siding type of "
                    \o Val(hpxmlwall.siding))
       ELSE Ok(FormatWallCode("cb", round_to_nearest(rvalue.val, <<0, 3, 6>>),
                              Val(sidingmap[Val(hpxmlwall.siding)])))

get_wall_assembly_code(hpxmlwall) ==
    CASE hpxmlwall.wtype = "WoodStud" -> WoodStudCode(hpxmlwall)
      [] hpxmlwall.wtype = "StructuralBrick" ->
            LET rvalue == SumOfLayers(hpxmlwall.layers)
            IN IF Failed(rvalue) THEN rvalue
               ELSE Ok(FormatWallCode("br", round_to_nearest(rvalue.val, <<0, 5, 10>>), "nn"))
      [] hpxmlwall.wtype \in {"ConcreteMasonryUnit", "Stone"} -> MasonryCode(hpxmlwall)
      [] hpxmlwall.wtype = "StrawBale" -> Ok(FormatWallCode("sb", 0, "st"))
      [] OTHER -> Raise("TranslationError",
                        "Wall type " \o hpxmlwall.wtype \o " not supported")


---------------------------------------------------------------------------
(* _get_building_zone_wall: the walls                                      *)
(*                                                                         *)
(* Wall areas are kept in half square feet, so that the half of a whole    *)
(* area is a whole number: a wall of Area a enters with 2a, a half wall    *)
(* with a, and the placeholder 1.0 of a sole wall without Area is 2.       *)

sidemap(house_azimuth) ==
    (house_azimuth :> "front") @@ (((house_azimuth + 90) % 360) :> "right") @@
    (((house_azimuth + 180) % 360) :> "back") @@ (((house_azimuth + 270) % 360) :> "left")

Sides == {"front", "right", "back", "left"}

(* sidemap.values(): the order in which the sides are iterated             *)
SidesInOrder(tie) ==
    IF tie = "lo" THEN <<"front", "right", "back", "left">>
    ELSE <<"left", "back", "right", "front">>

WallAzimuth(el) ==
    get_nearest_azimuth(IF IsNone(el.azimuth) THEN None ELSE Some(2 * Val(el.azimuth)),
                        el.orientation)

(* the exception reading one wall raises, if any                           *)
WallReadError(wall, sm) ==
    LET code == get_wall_assembly_code(wall)
        az == WallAzimuth(wall)
    IN IF Failed(code) THEN code
       ELSE IF Failed(az) THEN IF az.err = "TranslationError" THEN Ok("noside") ELSE az
       ELSE IF az.val \notin DOMAIN sm /\ IsNone(wall.area)
       THEN Raise("TypeError", "unsupported operand type(s) for /=: 'NoneType' and 'float'")
       ELSE Ok("placed")

(* the entries one wall adds to hpxmlwalls, each with the side it goes to  *)
(* a wall between two sides copied to both with its whole area             *)
PlaceWall_Whole(wall, sm) ==
    LET az == WallAzimuth(wall)
        walld(side, area) == [side |-> side, id |-> wall.id, area |-> area,
                              assembly_code |-> get_wall_assembly_code(wall).val]
        whole == IF IsNone(wall.area) THEN None ELSE Some(2 * Val(wall.area))
    IN IF Failed(az) THEN <<walld("noside", whole)>>
       ELSE IF az.val \in DOMAIN sm THEN <<walld(sm[az.val], whole)>>
       ELSE <<walld(sm[unspin_azimuth(az.val + 45)], whole),
              walld(sm[unspin_azimuth(az.val - 45)], whole)>>

PlaceWall(wall, sm) ==
    LET az == WallAzimuth(wall)
        walld(side, area) == [side |-> side, id |-> wall.id, area |-> area,
                              assembly_code |-> get_wall_assembly_code(wall).val]
        whole == IF IsNone(wall.area) THEN None ELSE Some(2 * Val(wall.area))
    IN IF Failed(az) THEN <<walld("noside", whole)>>
       ELSE IF az.val \in DOMAIN sm THEN <<walld(sm[az.val], whole)>>
       ELSE <<walld(sm[unspin_azimuth(az.val + 45)], wall.area),
              walld(sm[unspin_azimuth(az.val - 45)], wall.area)>>

RECURSIVE PlacedWalls(_, _)
PlacedWalls(walls, sm) ==
    IF Len(walls) = 0 THEN <<>>
    ELSE PlaceWall(Head(walls), sm) \o PlacedWalls(Tail(walls), sm)

(* hpxmlwalls after the walls without direction have been dealt with: the  *)
(* walls of each side, or the exception                                    *)
hpxmlwalls(walls, sm) ==
    LET failing == {i \in 1..Len(walls) : Failed(WallReadError(walls[i], sm))}
        placed == PlacedWalls(walls, sm)
        on(side) == SelectSeq(placed, LAMBDA w : w.side = side)
    IN IF failing # {}
       THEN WallReadError(walls[CHOOSE i \in failing : \A j \in failing : i <= j], sm)
       ELSE IF Len(on("noside")) = 0 THEN Ok([side \in Sides |-> on(side)])
       ELSE IF \A side \in Sides : Len(on(side)) = 0
       THEN Ok([side \in Sides |-> on("noside")])
       ELSE Raise("TranslationError",
                  "Some of the HPXML walls have orientation information and others do not.")

wall_const_types == <<"wf", "ps", "ov", "br", "cb", "sb">>

wall_ext_finish_types == <<"wo", "st", "vi", "al", "br", "nn">>

(* dict(zip(keys, vals))                                                   *)
DictZip(keys, vals) == [k \in SeqToSet(keys) |-> vals[IndexOf(keys, k)]]

(* effective R-values in tenths by construction type, siding, nominal R    *)
wall_eff_rvalues ==
    [wf |-> DictZip(SubSeq(wall_ext_finish_types, 1, 5),
               [i \in 1..5 |-> DictZip(<<0, 3, 7, 11, 13, 15, 19, 21>>,
                  << <<36, 57, 97, 137, 157, 177, 217, 237>>,
                     <<23, 44, 84, 124, 144, 164, 204, 224>>,
                     <<22, 43, 83, 123, 143, 163, 203, 223>>,
                     <<21, 42, 82, 122, 142, 162, 202, 222>>,
                     <<29, 50, 90, 130, 150, 170, 210, 230>> >>[i])]),
     ps |-> DictZip(SubSeq(wall_ext_finish_types, 1, 5),
               [i \in 1..5 |-> DictZip(<<11, 13, 15, 19, 21>>,
                  << <<171, 191, 211, 251, 271>>,
                     <<164, 184, 204, 244, 264>>,
                     <<163, 183, 203, 243, 263>>,
                     <<162, 182, 202, 242, 262>>,
                     <<170, 190, 210, 250, 270>> >>[i])]),
     ov |-> DictZip(SubSeq(wall_ext_finish_types, 1, 5),
               [i \in 1..5 |-> DictZip(<<19, 21, 27, 33, 38>>,
                  << <<210, 230, 290, 350, 400>>,
                     <<203, 223, 283, 343, 393>>,
                     <<201, 221, 281, 341, 391>>,
                     <<201, 221, 281, 341, 391>>,
                     <<209, 229, 289, 349, 399>> >>[i])]),
     br |-> ("nn" :> DictZip(<<0, 5, 10>>, <<29, 79, 128>>)),
     cb |-> DictZip(<<"st", "br", "nn">>,
               [i \in 1..3 |-> DictZip(<<0, 3, 6>>,
                  << <<41, 57, 85>>, <<56, 72, 100>>, <<40, 56, 83>> >>[i])]),
     sb |-> ("st" :> (0 :> 588))]

(* max(areas.keys(), key=lambda x: areas[x]): of the keys of the greatest  *)
(* area the one the iteration meets first                                  *)
MaxAreaKey(order, areas, tie) ==
    CHOOSE k \in SeqToSet(order) : \A j \in SeqToSet(order) \ {k} :
        \/ areas[k] > areas[j]
        \/ areas[k] = areas[j] /\ MetBefore(order, tie, k, j)

(* the HEScore wall of one side, or the exception                          *)
SideWall(side, walls, tie) ==
    LET area == [i \in 1..Len(walls) |->
                   IF IsNone(walls[i].area) THEN 2 ELSE Val(walls[i].area)]
        const == [i \in 1..Len(walls) |-> CodeOfChars(SubSeq(walls[i].assembly_code, 3, 4))]
        ext == [i \in 1..Len(walls) |-> CodeOfChars(SubSeq(walls[i].assembly_code, 7, 8))]
        rvalue == [i \in 1..Len(walls) |-> IntOfDigits(SubSeq(walls[i].assembly_code, 5, 6))]
        HasEff(c, e, r) == /\ c \in DOMAIN wall_eff_rvalues
                           /\ e \in DOMAIN wall_eff_rvalues[c]
                           /\ r \in DOMAIN wall_eff_rvalues[c][e]
        walltotalarea == SeqSum(area)
        AreaOf(kinds, k) == SeqSum([i \in 1..Len(walls) |->
                                       IF kinds[i] = k THEN area[i] ELSE 0])
        const_type == MaxAreaKey(wall_const_types,
                         [k \in SeqToSet(wall_const_types) |-> AreaOf(const, k)], tie)
        ext_finish == MaxAreaKey(wall_ext_finish_types,
                         [k \in SeqToSet(wall_ext_finish_types) |-> AreaOf(ext, k)], tie)
    IN IF Len(walls) > 1 /\ \E i \in 1..Len(walls) : IsNone(walls[i].area)
       THEN Raise("TranslationError",
                  "The " \o side \o " side of the house has " \o DigitChars[Len(walls) + 1]
                    \o " walls and they do not all have areas.")
       ELSE IF \E i \in 1..Len(walls) : ~HasEff(const[i], ext[i], rvalue[i])
       THEN Raise("KeyError", "wall_eff_rvalues[const_type][ext_finish][rvalue]")
       ELSE IF ext_finish \notin DOMAIN wall_eff_rvalues[const_type]
       THEN Raise("KeyError", ext_finish)
       ELSE IF walltotalarea = 0
       THEN Raise("ZeroDivisionError", "integer division or modulo by zero")
       ELSE LET table == wall_eff_rvalues[const_type][ext_finish]
                wallra == SeqSum([i \in 1..Len(walls) |->
                                    area[i] * wall_eff_rvalues[const[i]][ext[i]][rvalue[i]]])
                lowest == CHOOSE r \in DOMAIN table : \A q \in DOMAIN table : r <= q
                roffset == IF 0 \in DOMAIN table THEN table[0]
                           ELSE table[lowest] - 10 * lowest
            IN Ok([side |-> side,
                   wall_assembly_code |->
                      FormatWallCode(const_type,
                                     NearestKey(DOMAIN table,
                                                wallra - roffset * walltotalarea,
                                                walltotalarea, tie),
                                     ext_finish)])

(* zone_wall before the windows are added: the walls of the sides in the   *)
(* order of iteration, or the first exception                              *)
SideWalls(bySide, tie) ==
    LET order == SidesInOrder(tie)
        res == [i \in 1..4 |-> SideWall(order[i], bySide[order[i]], tie)]
        failing == {i \in 1..4 : Failed(res[i])}
    IN IF failing # {} THEN res[CHOOSE i \in failing : \A j \in failing : i <= j]
       ELSE Ok([i \in 1..4 |-> res[i].val])


---------------------------------------------------------------------------
(* get_window_code and _get_building_zone_wall: the windows                *)
(*                                                                         *)
(* A window is [area, qty, uvalue, shgc, frame, thermal_break,             *)
(* glass_layers, glass_type, gas_fill, attached, azimuth, orientation];    *)
(* all but frame (the name of the FrameType child) are optional.  U-values *)
(* and SHGCs are in hundredths.  Window areas on a side are kept in 256ths *)
(* of a square foot, which holds every share the code computes exactly; an *)
(* area-weighted mean is the fraction [num, den].                          *)

window_codes ==
    <<"scna", "stna", "dcaa", "dtaa", "dseaa", "dcab", "dtab", "dseab", "dpeaab",
      "scnw", "stnw", "dcaw", "dtaw", "dpeaw", "dpeaaw", "dseaw", "dseaaw", "thmabw">>

Is(o, v) == ~IsNone(o) /\ Val(o) = v

IsIn(o, S) == ~IsNone(o) /\ Val(o) \in S

StormOrDouble ==
    {"double-pane", "single-paned with storms", "single-paned with low-e storms"}

(* window_code, None when no branch assigns one                            *)
WindowCodeOrNone(window) ==
    LET glass_layers == window.glass_layers
        glass_type == window.glass_type
        argon == Is(window.gas_fill, "argon")
        tinted == IsIn(glass_type, {"tinted", "tinted/reflective"})
    IN IF window.frame \in {"Aluminum", "Metal"}
       THEN IF Is(window.thermal_break, TRUE)
            THEN IF IsIn(glass_layers, StormOrDouble)
                 THEN IF Is(glass_layers, "double-pane") /\ Is(glass_type, "low-e") /\ argon
                      THEN Some("dpeaab")
                      ELSE IF Is(glass_type, "reflective") THEN Some("dseab")
                      ELSE IF tinted THEN Some("dtab")
                      ELSE Some("dcab")
                 ELSE None
            ELSE IF Is(glass_layers, "single-pane")
                 THEN IF IsIn(glass_type, {"tinted", "low-e", "tinted/reflective"})
                      THEN Some("stna") ELSE Some("scna")
                 ELSE IF IsIn(glass_layers, StormOrDouble)
                 THEN IF IsIn(glass_type, {"reflective", "tinted/reflective"})
                      THEN Some("dseaa")
                      ELSE IF Is(glass_type, "tinted") THEN Some("dtaa")
                      ELSE Some("dcaa")
                 ELSE None
       ELSE IF window.frame \in {"Vinyl", "Wood", "Fiberglass", "Composite"}
       THEN IF Is(glass_layers, "single-pane")
            THEN IF IsIn(glass_type, {"tinted", "low-e", "tinted/reflective"})
                 THEN Some("stnw") ELSE Some("scnw")
            ELSE IF IsIn(glass_layers, StormOrDouble)
            THEN IF \/ Is(glass_layers, "double-pane") /\ Is(glass_type, "low-e")
                    \/ Is(glass_layers, "single-paned with low-e storms")
                 THEN IF argon /\ Is(glass_layers, "double-pane")
                      THEN Some("dpeaaw") ELSE Some("dpeaw")
                 ELSE IF Is(glass_type, "reflective")
                 THEN IF argon /\ Is(glass_layers, "double-pane")
                      THEN Some("dseaaw") ELSE Some("dseaw")
                 ELSE IF tinted THEN Some("dtaw")
                 ELSE Some("dcaw")
            ELSE IF Is(glass_layers, "triple-pane") THEN Some("thmabw")
            ELSE None
       ELSE None

(* window_code starting as a catalog value instead of None                 *)
get_window_code_Defaulted(window) ==
    IF IsNone(WindowCodeOrNone(window))
    THEN Ok("scna")
    ELSE Ok(Val(WindowCodeOrNone(window)))

get_window_code(window) ==
    IF IsNone(WindowCodeOrNone(window))
    THEN Raise("TranslationError", "Cannot translate window type.")
    ELSE Ok(Val(WindowCodeOrNone(window)))

HasUAndSHGC(w) == ~IsNone(w.uvalue) /\ ~IsNone(w.shgc)

(* the exception reading one window raises, if any                         *)
WindowReadError(hpxmlwndw, sm) ==
    LET az == WallAzimuth(hpxmlwndw)
    IN IF IsNone(hpxmlwndw.area)
       THEN Raise("TranslationError", "All windows need an area.")
       ELSE IF ~HasUAndSHGC(hpxmlwndw) /\ Failed(get_window_code(hpxmlwndw))
       THEN get_window_code(hpxmlwndw)
       ELSE IF ~IsNone(hpxmlwndw.attached) THEN Ok("attached")
       ELSE IF Failed(az)
       THEN IF az.err = "TranslationError"
            THEN Raise("TranslationError",
                       "All windows need to have either an AttachedToWall, Orientation, "
                         \o "or Azimuth sub element.")
            ELSE az
       ELSE IF az.val \notin DOMAIN sm THEN Raise("KeyError", "sidemap[wndw_azimuth]")
       ELSE Ok("placed")

(* window_sides: the sides that hold the wall the window is attached to,   *)
(* in the order of hpxmlwalls.items(), else the side of its azimuth        *)
window_sides(hpxmlwndw, bySide, sm, tie) ==
    IF ~IsNone(hpxmlwndw.attached)
    THEN SelectSeq(SidesInOrder(tie),
                   LAMBDA side : \E i \in 1..Len(bySide[side]) :
                                    bySide[side][i].id = Val(hpxmlwndw.attached))
    ELSE <<sm[WallAzimuth(hpxmlwndw).val]>>

RECURSIVE Power(_, _)
Power(n, k) == IF k = 0 THEN 1 ELSE n * Power(n, k - 1)

(* the entries one window adds to hpxmlwindows: windowd['area'] is divided *)
(* by the number of sides once more for every side                         *)
PlaceWindow(hpxmlwndw, bySide, sm, tie) ==
    LET sides == window_sides(hpxmlwndw, bySide, sm, tie)
        area == 256 * Val(hpxmlwndw.area)
                  * (IF IsNone(hpxmlwndw.qty) THEN 1 ELSE Val(hpxmlwndw.qty))
    IN [k \in 1..Len(sides) |->
          [side |-> sides[k], area |-> area \div Power(Len(sides), k),
           uvalue |-> hpxmlwndw.uvalue, shgc |-> hpxmlwndw.shgc,
           window_code |-> IF HasUAndSHGC(hpxmlwndw) THEN None
                           ELSE Some(get_window_code(hpxmlwndw).val)]]

RECURSIVE PlacedWindows(_, _, _, _)
PlacedWindows(windows, bySide, sm, tie) ==
    IF Len(windows) = 0 THEN <<>>
    ELSE PlaceWindow(Head(windows), bySide, sm, tie)
           \o PlacedWindows(Tail(windows), bySide, sm, tie)

(* hpxmlwindows: the windows of each side, or the exception                *)
hpxmlwindows(windows, bySide, sm, tie) ==
    LET failing == {i \in 1..Len(windows) : Failed(WindowReadError(windows[i], sm))}
        placed == PlacedWindows(windows, bySide, sm, tie)
    IN IF failing # {}
       THEN WindowReadError(windows[CHOOSE i \in failing : \A j \in failing : i <= j], sm)
       ELSE Ok([side \in Sides |-> SelectSeq(placed, LAMBDA w : w.side = side)])

town_house_sides ==
    [back_right_front |-> {"back", "right", "front"}, back_front |-> {"back", "front"},
     back_front_left |-> {"back", "front", "left"}]

windows_are_on_shared_walls(town_house_walls, windowsBySide) ==
    \E side \in Sides \ town_house_sides[town_house_walls] :
        Len(windowsBySide[side]) > 0

(* the check of the shared walls without the second attempt                *)
CheckedTownHouseWalls_NoRetry(about, windowsBySide) ==
    IF about.shape # "town_house" THEN Ok(None)
    ELSE IF ~windows_are_on_shared_walls(Val(about.town_house_walls), windowsBySide)
    THEN Ok(about.town_house_walls)
    ELSE Raise("TranslationError", "The house has windows on shared walls.")

(* bldg_about['town_house_walls'] after the check of the shared walls, or  *)
(* the exception; None when the building is no town house                  *)
CheckedTownHouseWalls(about, windowsBySide) ==
    IF about.shape # "town_house" THEN Ok(None)
    ELSE LET thw == Val(about.town_house_walls)
         IN IF ~windows_are_on_shared_walls(thw, windowsBySide) THEN Ok(Some(thw))
            ELSE IF thw = "back_right_front"
                    /\ ~windows_are_on_shared_walls("back_front_left", windowsBySide)
            THEN Ok(Some("back_front_left"))
            ELSE Raise("TranslationError", "The house has windows on shared walls.")


(* zone_window of one side, or the exception                               *)
ZoneWindow(windows, tie) ==
    LET custom == SelectSeq(windows, HasUAndSHGC)
        Total(ws) == SeqSum([i \in 1..Len(ws) |-> ws[i].area])
        CodeArea(code) == SeqSum([i \in 1..Len(windows) |->
                                    IF windows[i].window_code = Some(code)
                                    THEN windows[i].area ELSE 0])
        present == SelectSeq(window_codes, LAMBDA c : \E i \in 1..Len(windows) :
                                                         windows[i].window_code = Some(c))
    IN IF Len(windows) = 0
       THEN Ok([window_area |-> 0, window_method |-> "code", window_code |-> "scna"])
       ELSE IF Len(custom) > 0
       THEN IF Total(custom) = 0
            THEN Raise("ZeroDivisionError", "float division by zero")
            ELSE Ok([window_area |-> Total(windows), window_method |-> "custom",
                     window_u_value |->
                        [num |-> SeqSum([i \in 1..Len(custom) |->
                                           Val(custom[i].uvalue) * custom[i].area]),
                         den |-> Total(custom)],
                     window_shgc |->
                        [num |-> SeqSum([i \in 1..Len(custom) |->
                                           Val(custom[i].shgc) * custom[i].area]),
                         den |-> Total(custom)]])
       ELSE Ok([window_area |-> Total(windows), window_method |-> "code",
                window_code |-> MaxAreaKey(present,
                                           [c \in SeqToSet(present) |-> CodeArea(c)], tie)])

(* zone_wall and the town_house_walls it leaves in bldg_about, or the      *)
(* exception                                                               *)
get_building_zone_wall(walls, windows, about, house_azimuth, tie) ==
    LET sm == sidemap(house_azimuth)
        bySide == hpxmlwalls(walls, sm)
    IN IF Failed(bySide) THEN bySide
       ELSE LET zone_wall == SideWalls(bySide.val, tie)
                wndws == hpxmlwindows(windows, bySide.val, sm, tie)
            IN IF Failed(zone_wall) THEN zone_wall
               ELSE IF Failed(wndws) THEN wndws
               ELSE LET thw == CheckedTownHouseWalls(about, wndws.val)
                        order == SidesInOrder(tie)
                        zw == [i \in 1..4 |-> ZoneWindow(wndws.val[order[i]], tie)]
                        failing == {i \in 1..4 : Failed(zw[i])}
                    IN IF Failed(thw) THEN thw
                       ELSE IF failing # {}
                       THEN zw[CHOOSE i \in failing : \A j \in failing : i <= j]
                       ELSE Ok([town_house_walls |-> thw.val,
                                zone_wall |->
                                   [i \in 1..4 |->
                                      [side |-> zone_wall.val[i].side,
                                       wall_assembly_code |->
                                          zone_wall.val[i].wall_assembly_code,
                                       zone_window |-> zw[i].val]]])


---------------------------------------------------------------------------
(* Specification SpecWall: _get_building_zone_wall on the walls and        *)
(* windows of a building.                                                  *)

MaxWallR == 40

Layer(rigid, continuous, r) == [rigid |-> rigid, continuous |-> continuous, r |-> r]

Wall(id, kind, layers, siding, area, azimuth, orientation) ==
    [id |-> id, wtype |-> kind.wtype, eps |-> kind.eps, ove |-> kind.ove,
     layers |-> layers, siding |-> siding, area |-> area,
     azimuth |-> azimuth, orientation |-> orientation]

WallKind(wtype, eps, ove) == [wtype |-> wtype, eps |-> eps, ove |-> ove]

WallKinds ==
    {WallKind("WoodStud", FALSE, FALSE), WallKind("WoodStud", TRUE, FALSE),
     WallKind("WoodStud", FALSE, TRUE), WallKind("StructuralBrick", FALSE, FALSE),
     WallKind("ConcreteMasonryUnit", FALSE, FALSE), WallKind("StrawBale", FALSE, FALSE)}

SidingChoices ==
    {None, Some("wood siding"), Some("stucco"), Some("vinyl siding"),
     Some("aluminum siding"), Some("brick veneer"), Some("other")}

(* a wood frame wall of R-13 with wood siding and area 1                   *)
PlainWall(id, azimuth) ==
    Wall(id, WallKind("WoodStud", FALSE, FALSE), <<Layer(FALSE, FALSE, Some(13))>>,
         Some("wood siding"), Some(1), Some(azimuth), None)

FourPlainWalls(house_azimuth) ==
    <<PlainWall("wall1", house_azimuth), PlainWall("wall2", (house_azimuth + 90) % 360),
      PlainWall("wall3", (house_azimuth + 180) % 360),
      PlainWall("wall4", (house_azimuth + 270) % 360)>>

Rectangle == [shape |-> "rectangle", town_house_walls |-> None]

TownHouse(town_house_walls) ==
    [shape |-> "town_house", town_house_walls |-> Some(town_house_walls)]

Building(walls, windows, about, house_azimuth) ==
    [walls |-> walls, windows |-> windows, about |-> about, house_azimuth |-> house_azimuth]

(* the buildings of a set, each with the order dicts are iterated in      *)
WallInputsOf(tie, buildings) == {[bldg |-> b, tie |-> tie] : b \in buildings}

(* one wall on each side; the front wall is of any kind, R-value, siding   *)
OneWallPerSideBuildings(tie) ==
    WallInputsOf(tie,
    {Building(<<Wall("wall1", kind, <<Layer(FALSE, FALSE, Some(r))>>, siding, area,
                     Some(0), None)>> \o Tail(FourPlainWalls(0)),
              <<>>, Rectangle, 0) :
        kind \in WallKinds, r \in 0..MaxWallR, siding \in SidingChoices,
        area \in {None, Some(0), Some(MaxArea)}})

(* a single wall with any two layers, of any kind                          *)
LayerSamples ==
    {Layer(rigid, continuous, r) :
        rigid \in BOOLEAN, continuous \in BOOLEAN, r \in {None, Some(5), Some(13)}}

LayeredWallBuildings(tie) ==
    WallInputsOf(tie,
    {Building(<<Wall("wall1", kind, layers, Some("vinyl siding"), None, None, None)>>,
              <<>>, Rectangle, 0) :
        kind \in WallKinds \cup {WallKind("Stone", FALSE, FALSE),
                                 WallKind("WoodStud", TRUE, TRUE),
                                 WallKind("LogWall", FALSE, FALSE)},
        layers \in SeqsUpTo(LayerSamples, 2)})

MixSamples ==
    {[kind |-> WallKind("WoodStud", FALSE, FALSE), r |-> 11, siding |-> Some("wood siding")],
     [kind |-> WallKind("WoodStud", FALSE, FALSE), r |-> 19, siding |-> Some("vinyl siding")],
     [kind |-> WallKind("WoodStud", TRUE, FALSE), r |-> 13, siding |-> Some("wood siding")],
     [kind |-> WallKind("WoodStud", TRUE, FALSE), r |-> 3, siding |-> Some("stucco")],
     [kind |-> WallKind("WoodStud", FALSE, TRUE), r |-> 27, siding |-> Some("stucco")],
     [kind |-> WallKind("StructuralBrick", FALSE, FALSE), r |-> 5, siding |-> None],
     [kind |-> WallKind("ConcreteMasonryUnit", FALSE, FALSE), r |-> 6, siding |-> None],
     [kind |-> WallKind("StrawBale", FALSE, FALSE), r |-> 0, siding |-> None]}

(* two walls on the front side                                             *)
TwoWallSideBuildings(tie) ==
    WallInputsOf(tie,
    {Building(<<Wall("wall1", m1.kind, <<Layer(FALSE, FALSE, Some(m1.r))>>, m1.siding, a1,
                     Some(0), None),
                Wall("wall5", m2.kind, <<Layer(FALSE, FALSE, Some(m2.r))>>, m2.siding, a2,
                     None, Some("north"))>> \o Tail(FourPlainWalls(0)),
              <<>>, Rectangle, 0) :
        m1 \in MixSamples, m2 \in MixSamples,
        a1 \in PositiveAreaChoices, a2 \in PositiveAreaChoices})

(* one wall of any direction, alone or beside a wall on each side          *)
DirectionBuildings(tie) ==
    WallInputsOf(tie,
    {Building(base[1] \o <<Wall("wall5", WallKind("StructuralBrick", FALSE, FALSE), <<>>,
                                None, area, azimuth, orientation)>> \o base[2],
              <<>>, Rectangle, h) :
        base \in {<< <<>>, <<>> >>, <<FourPlainWalls(0), <<>> >>,
                  << <<>>, FourPlainWalls(0)>>},
        area \in PositiveAreaChoices,
        azimuth \in {None, Some(0), Some(45), Some(100), Some(135), Some(225), Some(315),
                     Some(359)},
        orientation \in {None, Some("east"), Some("northeast")},
        h \in {0, 45, 270}})


(* a window given by its glazing, to be translated to a code               *)
CodeWindow(area, frame, thermal_break, glass_layers, glass_type, gas_fill,
           attached, azimuth) ==
    [area |-> area, qty |-> None, uvalue |-> None, shgc |-> None, frame |-> frame,
     thermal_break |-> thermal_break, glass_layers |-> glass_layers,
     glass_type |-> glass_type, gas_fill |-> gas_fill, attached |-> attached,
     azimuth |-> azimuth, orientation |-> None]

(* a window given by its U-factor and SHGC                                 *)
CustomWindow(area, qty, uvalue, shgc, attached, azimuth) ==
    [area |-> area, qty |-> qty, uvalue |-> Some(uvalue), shgc |-> Some(shgc),
     frame |-> "", thermal_break |-> None, glass_layers |-> None, glass_type |-> None,
     gas_fill |-> None, attached |-> attached, azimuth |-> azimuth, orientation |-> None]

WindowSamples ==
    {CodeWindow(Some(10), "Vinyl", None, Some("double-pane"), Some("low-e"), Some("argon"),
                None, Some(0)),
     CodeWindow(Some(8), "Wood", None, Some("double-pane"), None, None, None, Some(45)),
     CodeWindow(Some(6), "Aluminum", Some(FALSE), Some("single-pane"), None, None,
                Some("wall3"), None),
     CodeWindow(Some(5), "Wood", None, Some("triple-pane"), None, None, None, Some(270)),
     CodeWindow(Some(6), "Metal", Some(TRUE), Some("single-pane"), None, None,
                None, Some(180)),
     CodeWindow(None, "Vinyl", None, Some("single-pane"), None, None, None, Some(0)),
     CodeWindow(Some(6), "Vinyl", None, Some("single-pane"), Some("tinted"), None,
                None, None),
     CodeWindow(Some(6), "Vinyl", None, Some("single-pane"), None, None,
                Some("wall9"), None),
     CustomWindow(Some(4), Some(2), 30, 40, None, Some(90)),
     CustomWindow(Some(8), None, 50, 60, Some("wall5"), None),
     CustomWindow(Some(0), None, 30, 40, None, Some(0))}

(* a wall on each side, with or without a wall across the front right      *)
(* corner, and up to two windows                                           *)
WindowBuildings(tie) ==
    WallInputsOf(tie,
    {Building(FourPlainWalls(0) \o corner, windows, about, 0) :
        corner \in {<<>>, <<PlainWall("wall5", 45)>>},
        windows \in SeqsUpTo(WindowSamples, 2),
        about \in {Rectangle, TownHouse("back_right_front"), TownHouse("back_front")}})

(* walls without direction, with or without a window attached to the first *)
NoDirectionBuildings(tie) ==
    WallInputsOf(tie,
    {Building([i \in 1..Len(ms) |->
                 Wall(<<"wall1", "wall2">>[i], ms[i].kind,
                      <<Layer(FALSE, FALSE, Some(ms[i].r))>>, ms[i].siding, area, None, None)]
                \o directed,
              windows, Rectangle, 0) :
        ms \in [1..1 -> MixSamples] \cup [1..2 -> MixSamples],
        area \in PositiveAreaChoices,
        directed \in {<<>>, <<PlainWall("wall3", 180)>>},
        windows \in {<<>>, <<CustomWindow(Some(8), None, 50, 60, Some("wall1"), None)>>}})

ThreeWallMixSamples ==
    {[kind |-> WallKind("WoodStud", FALSE, FALSE), r |-> 11, siding |-> Some("wood siding")],
     [kind |-> WallKind("WoodStud", FALSE, FALSE), r |-> 19, siding |-> Some("vinyl siding")],
     [kind |-> WallKind("StructuralBrick", FALSE, FALSE), r |-> 5, siding |-> None],
     [kind |-> WallKind("ConcreteMasonryUnit", FALSE, FALSE), r |-> 3,
      siding |-> Some("stucco")]}

(* three walls on the front side                                           *)
ThreeWallSideBuildings(tie) ==
    WallInputsOf(tie,
    {Building(<<Wall("wall1", m1.kind, <<Layer(FALSE, FALSE, Some(m1.r))>>, m1.siding,
                     Some(a1), Some(0), None),
                Wall("wall5", m2.kind, <<Layer(FALSE, FALSE, Some(m2.r))>>, m2.siding,
                     Some(a2), None, Some("north")),
                Wall("wall6", m3.kind, <<Layer(FALSE, FALSE, Some(m3.r))>>, m3.siding,
                     Some(a3), Some(0), None)>> \o Tail(FourPlainWalls(0)),
              <<>>, Rectangle, 0) :
        m1 \in ThreeWallMixSamples, m2 \in ThreeWallMixSamples,
        m3 \in ThreeWallMixSamples,
        a1 \in {1, 2}, a2 \in {2}, a3 \in {2, MaxArea}})

WallInputs(tie) ==
    OneWallPerSideBuildings(tie) \cup LayeredWallBuildings(tie) \cup TwoWallSideBuildings(tie)
    \cup ThreeWallSideBuildings(tie)
    \cup DirectionBuildings(tie) \cup WindowBuildings(tie) \cup NoDirectionBuildings(tie)

InitWall ==
    /\ pc = "zone_wall"
    /\ \E tie \in TiePolicies : inp \in WallInputs(tie)
    /\ out = NoOut

GetBuildingZoneWall ==
    /\ pc = "zone_wall"
    /\ out' = get_building_zone_wall(inp.bldg.walls, inp.bldg.windows, inp.bldg.about,
                                     inp.bldg.house_azimuth, inp.tie)
    /\ pc' = "done"
    /\ UNCHANGED inp

SpecWall == InitWall /\ [][GetBuildingZoneWall]_vars


(* the walls of each side of the building of the input, when they are read *)
InputWallsBySide == hpxmlwalls(inp.bldg.walls, sidemap(inp.bldg.house_azimuth))

(* the entry of zone_wall for a side                                       *)
ZoneWallOf(zone_wall, side) ==
    zone_wall[CHOOSE i \in 1..Len(zone_wall) : zone_wall[i].side = side]

EverySideHasOneWall ==
    /\ InputWallsBySide.err = "ok"
    /\ \A side \in Sides : Len(InputWallsBySide.val[side]) = 1

(* C2: when every side of a building without windows holds exactly one     *)
(* wall, with the assembly code get_wall_assembly_code gave it (its        *)
(* nominal R-value is one of its construction type's catalog), then        *)
(* _get_building_zone_wall returns and the wall_assembly_code of every     *)
(* side is that very code: same construction type, same nominal R-value,   *)
(* same siding.                                                            *)
C2_WallRoundTrip ==
    (pc = "done" /\ Len(inp.bldg.windows) = 0 /\ EverySideHasOneWall)
    => /\ out.err = "ok"
       /\ \A side \in Sides :
             ZoneWallOf(out.val.zone_wall, side).wall_assembly_code
               = InputWallsBySide.val[side][1].assembly_code

(* the part of C2 the code keeps: the same, when no wall has a zero area   *)
(* and for all codes but ps with R 0, 3, 7 and cb with R 6                 *)
C2_WallRoundTripButPsAndCb ==
    (/\ pc = "done"
     /\ Len(inp.bldg.windows) = 0
     /\ EverySideHasOneWall
     /\ \A side \in Sides :
           LET w == InputWallsBySide.val[side][1]
           IN /\ w.area # Some(0)
              /\ SubSeq(w.assembly_code, 3, 6) \notin
                    {<<"p", "s", "0", "0">>, <<"p", "s", "0", "3">>, <<"p", "s", "0", "7">>,
                     <<"c", "b", "0", "6">>})
    => /\ out.err = "ok"
       /\ \A side \in Sides :
             ZoneWallOf(out.val.zone_wall, side).wall_assembly_code
               = InputWallsBySide.val[side][1].assembly_code

(* a front wall of concrete masonry with R-6 and no siding, alone on its   *)
(* side, comes back as ewcb03nn                                            *)
C2_DriftAtCb6 ==
    /\ pc = "done"
    /\ EverySideHasOneWall
    /\ InputWallsBySide.val["front"][1].assembly_code
         = <<"e", "w", "c", "b", "0", "6", "n", "n">>
    /\ out.err = "ok"
    /\ ZoneWallOf(out.val.zone_wall, "front").wall_assembly_code
         = <<"e", "w", "c", "b", "0", "3", "n", "n">>

(* a front wall with polystyrene sheathing and R-3, alone on its side,     *)
(* ends the translation with a KeyError                                    *)
C2_KeyErrorAtPs3 ==
    /\ pc = "done"
    /\ EverySideHasOneWall
    /\ InputWallsBySide.val["front"][1].assembly_code
         = <<"e", "w", "p", "s", "0", "3", "w", "o">>
    /\ InputWallsBySide.val["front"][1].area = Some(2 * MaxArea)
    /\ out.err = "KeyError"


(***************************************************************************)
(* Roof: _get_building_zone_roof.  Areas are whole square feet, R-values   *)
(* are tenths; an area weighted mean is the pair [num, den] (tenths times  *)
(* area, over area).                                                       *)
(***************************************************************************)
rooftypemap ==
    [t \in {"cape cod", "cathedral ceiling", "flat roof", "unvented attic",
            "vented attic", "venting unknown attic", "other"} |->
        IF t \in {"cape cod", "cathedral ceiling", "flat roof"} THEN Some("cath_ceiling")
        ELSE IF t = "other" THEN None
        ELSE Some("vented_attic")]

attic_floor_rvalues == {0, 3, 6, 9, 11, 19, 21, 25, 30, 38, 44, 49, 60}

roof_center_of_cavity_rvalues ==
    [wf |-> [co |-> DictZip(<<0, 11, 13, 15, 19, 21>>, <<27, 136, 156, 176, 216, 236>>),
             wo |-> DictZip(<<0, 11, 13, 15, 19, 21, 27>>, <<32, 141, 161, 181, 221, 241, 301>>),
             rc |-> DictZip(<<0, 11, 13, 15, 19, 21, 27>>, <<22, 132, 152, 172, 212, 232, 292>>),
             lc |-> DictZip(<<0, 11, 13, 15, 19, 21, 27>>, <<23, 132, 152, 172, 212, 232, 292>>),
             tg |-> DictZip(<<0, 11, 13, 15, 19, 21, 27>>, <<23, 132, 152, 172, 212, 232, 292>>)],
     rb |-> [co |-> DictZip(<<0>>, <<50>>),
             wo |-> DictZip(<<0>>, <<55>>),
             rc |-> DictZip(<<0>>, <<45>>),
             lc |-> DictZip(<<0>>, <<46>>),
             tg |-> DictZip(<<0>>, <<46>>)],
     ps |-> [co |-> DictZip(<<0, 11, 13, 15>>, <<68, 178, 198, 218>>),
             wo |-> DictZip(<<0, 11, 13, 15, 19, 21>>, <<73, 183, 203, 223, 263, 283>>),
             rc |-> DictZip(<<0, 11, 13, 15, 19, 21>>, <<64, 174, 194, 214, 254, 274>>),
             lc |-> DictZip(<<0, 11, 13, 15, 19, 21>>, <<64, 174, 194, 214, 254, 274>>),
             tg |-> DictZip(<<0, 11, 13, 15, 19, 21>>, <<64, 174, 194, 214, 254, 274>>)]]

roofcolormap ==
    [c \in {"light", "medium", "dark", "reflective"} |-> IF c = "reflective" THEN "white" ELSE c]

extfinishmap ==
    [t \in {"shingles", "slate or tile shingles", "wood shingles or shakes",
            "asphalt or fiberglass shingles", "metal surfacing",
            "expanded polystyrene sheathing", "plastic/rubber/synthetic sheeting",
            "concrete", "cool roof", "green roof", "no one major type", "other"} |->
        CASE t \in {"shingles", "asphalt or fiberglass shingles", "metal surfacing"} -> Some("co")
          [] t \in {"slate or tile shingles", "concrete"} -> Some("lc")
          [] t = "wood shingles or shakes" -> Some("wo")
          [] t = "plastic/rubber/synthetic sheeting" -> Some("tg")
          [] OTHER -> None]

(* the Roof element an attic is attached to: the one with the id of        *)
(* AttachedToRoof, else the only roof of the building                      *)
RoofOfAttic(attic, roofs) ==
    LET named == {i \in 1..Len(roofs) : attic.roofidref = Some(roofs[i].id)}
    IN IF named # {} THEN Some(roofs[CHOOSE i \in named : TRUE])
       ELSE IF Len(roofs) = 1 THEN Some(roofs[1])
       ELSE None

(* the sum of NominalRValue over the layers of an insulation that carry    *)
(* one and satisfy keep                                                    *)
XPathSumOfLayers(layers, keep(_)) ==
    SeqSum([i \in 1..Len(layers) |->
              IF keep(layers[i]) /\ ~IsNone(layers[i].r) THEN Val(layers[i].r) ELSE 0])

has_rigid_sheathing(attic) ==
    \E i \in 1..Len(attic.roof_layers) :
        LET lyr == attic.roof_layers[i]
        IN ~IsNone(lyr.r) /\ Val(lyr.r) > 0 /\ lyr.continuous /\ lyr.rigid

roofconstype(attic, roof) ==
    IF roof.radiant_barrier THEN "rb"
    ELSE IF has_rigid_sheathing(attic) THEN "ps"
    ELSE "wf"

(* the record atticd of one Attic element, or the error that ends the loop *)
AtticRecord(attic, attics, roofs, footprint_area, tie) ==
    LET roof == RoofOfAttic(attic, roofs)
    IN IF IsNone(roof)
       THEN Raise("TranslationError", "Attic does not have a roof associated with it.")
       ELSE IF IsNone(attic.area) /\ ~(Len(attics) = 1 /\ Len(roofs) = 1)
       THEN Raise("TranslationError", "If there are more than one Attic elements, each needs an area.")
       ELSE IF IsNone(attic.attic_type)
       THEN Raise("KeyError", "rooftypemap[hpxml_attic_type]")
       ELSE IF IsNone(rooftypemap[Val(attic.attic_type)])
       THEN Raise("TranslationError", "Cannot translate HPXML AtticType to HEScore rooftype.")
       ELSE IF IsNone(Val(roof).color) \/ Val(Val(roof).color) \notin DOMAIN roofcolormap
       THEN Raise("TranslationError", "Invalid or missing RoofColor")
       ELSE IF \/ IsNone(Val(roof).roof_type)
               \/ Val(Val(roof).roof_type) \notin DOMAIN extfinishmap
               \/ IsNone(extfinishmap[Val(Val(roof).roof_type)])
       THEN Raise("TranslationError", "HEScore does not have an analogy to the HPXML roof type")
       ELSE LET ct == roofconstype(attic, Val(roof))
                ef == Val(extfinishmap[Val(Val(roof).roof_type)])
                table == roof_center_of_cavity_rvalues[ct][ef]
                roof_rvalue ==
                    XPathSumOfLayers(attic.roof_layers, LAMBDA lyr : ~IsRigidContinuous(lyr))
                floor_rvalue == XPathSumOfLayers(attic.floor_layers, LAMBDA lyr : TRUE)
            IN Ok([roofid |-> Val(roof).id,
                   roof_area |-> IF IsNone(attic.area) THEN footprint_area ELSE Val(attic.area),
                   rooftype |-> Val(rooftypemap[Val(attic.attic_type)]),
                   roofcolor |-> roofcolormap[Val(Val(roof).color)],
                   extfinish |-> ef,
                   roofconstype |-> ct,
                   roof_coc_rvalue |-> table[NearestKey(DOMAIN table, 10 * roof_rvalue, 1, tie)],
                   attic_floor_coc_rvalue |->
                       10 * NearestKey(attic_floor_rvalues, 10 * floor_rvalue, 1, "lo") + 5])

AtticRecords(attics, roofs, footprint_area, tie) ==
    [i \in 1..Len(attics) |-> AtticRecord(attics[i], attics, roofs, footprint_area, tie)]


(* one or two attics: each is a zone of its own                            *)
OwnAtticd(atticd) ==
    [roof_area |-> atticd.roof_area,
     rooftype |-> atticd.rooftype,
     roofcolor |-> atticd.roofcolor,
     extfinish |-> atticd.extfinish,
     roofconstype |-> atticd.roofconstype,
     roofids |-> {atticd.roofid},
     roof_coc_rvalue |-> [num |-> atticd.roof_coc_rvalue, den |-> 1],
     attic_floor_coc_rvalue |-> [num |-> atticd.attic_floor_coc_rvalue, den |-> 1]]

(* the keys of attics_by_rooftype, in the order the dict gives them        *)
RoofTypesInOrder(atticds, tie) ==
    SelectSeq(IF tie = "lo" THEN <<"cath_ceiling", "vented_attic">>
              ELSE <<"vented_attic", "cath_ceiling">>,
              LAMBDA t : \E i \in 1..Len(atticds) : atticds[i].rooftype = t)

AtticCategories ==
    [roofconstype |-> <<"ps", "rb", "wf">>,
     extfinish |-> <<"co", "lc", "tg", "wo">>,
     roofcolor |-> <<"dark", "light", "medium", "white">>,
     rooftype |-> <<"cath_ceiling", "vented_attic">>]

(* the value of attic_key with the greatest summed roof area in a group    *)
PredominantByArea(group, attic_key, tie) ==
    LET present == SelectSeq(AtticCategories[attic_key],
                             LAMBDA c : \E i \in 1..Len(group) : group[i][attic_key] = c)
        roof_area_by_cat ==
            [c \in SeqToSet(present) |->
                SeqSum([i \in 1..Len(group) |->
                          IF group[i][attic_key] = c THEN group[i].roof_area ELSE 0])]
    IN MaxAreaKey(present, roof_area_by_cat, tie)

(* the characteristics of the first attic of the group instead of the     *)
(* predominant ones                                                        *)
CombinedAtticd_FirstMember(group, tie) ==
    LET roof_area == SeqSum([i \in 1..Len(group) |-> group[i].roof_area])
    IN [roof_area |-> roof_area,
        rooftype |-> group[1].rooftype,
        roofcolor |-> group[1].roofcolor,
        extfinish |-> group[1].extfinish,
        roofconstype |-> group[1].roofconstype,
        roofids |-> {group[i].roofid : i \in 1..Len(group)},
        roof_coc_rvalue |->
            [num |-> SeqSum([i \in 1..Len(group) |-> group[i].roof_coc_rvalue * group[i].roof_area]),
             den |-> roof_area],
        attic_floor_coc_rvalue |->
            [num |-> SeqSum([i \in 1..Len(group) |->
                               group[i].attic_floor_coc_rvalue * group[i].roof_area]),
             den |-> roof_area]]

CombinedAtticd(group, tie) ==
    LET roof_area == SeqSum([i \in 1..Len(group) |-> group[i].roof_area])
    IN [roof_area |-> roof_area,
        rooftype |-> PredominantByArea(group, "rooftype", tie),
        roofcolor |-> PredominantByArea(group, "roofcolor", tie),
        extfinish |-> PredominantByArea(group, "extfinish", tie),
        roofconstype |-> PredominantByArea(group, "roofconstype", tie),
        roofids |-> {group[i].roofid : i \in 1..Len(group)},
        roof_coc_rvalue |->
            [num |-> SeqSum([i \in 1..Len(group) |-> group[i].roof_coc_rvalue * group[i].roof_area]),
             den |-> roof_area],
        attic_floor_coc_rvalue |->
            [num |-> SeqSum([i \in 1..Len(group) |->
                               group[i].attic_floor_coc_rvalue * group[i].roof_area]),
             den |-> roof_area]]

(* more than two attics: one zone per roof type                            *)
CombinedAtticds(atticds, tie) ==
    LET types == RoofTypesInOrder(atticds, tie)
        groups == [g \in 1..Len(types) |-> SelectSeq(atticds, LAMBDA a : a.rooftype = types[g])]
        combined == [g \in 1..Len(types) |-> CombinedAtticd(groups[g], tie)]
    IN IF \E g \in 1..Len(types) : combined[g].roof_area = 0
       THEN Raise("ZeroDivisionError", "float division by zero")
       ELSE Ok(combined)

(* list.sort(key=roof_area, reverse=True): descending, equal areas keep    *)
(* their order                                                             *)
RECURSIVE InsertByRoofArea(_, _)
InsertByRoofArea(sorted, atticd) ==
    IF Len(sorted) = 0 THEN <<atticd>>
    ELSE IF Head(sorted).roof_area >= atticd.roof_area
    THEN <<Head(sorted)>> \o InsertByRoofArea(Tail(sorted), atticd)
    ELSE <<atticd>> \o sorted

RECURSIVE SortedFrom(_, _)
SortedFrom(sorted, rest) ==
    IF Len(rest) = 0 THEN sorted
    ELSE SortedFrom(InsertByRoofArea(sorted, Head(rest)), Tail(rest))

SortedByRoofArea_Unsorted(atticds) == atticds

SortedByRoofArea(atticds) == SortedFrom(<<>>, atticds)

(* mutant of LargestTwo: the largest zone alone is kept                    *)
LargestTwo_OnlyLargest(atticds) ==
    SubSeq(atticds, 1, IF Len(atticds) < 1 THEN Len(atticds) ELSE 1)

LargestTwo(atticds) == SubSeq(atticds, 1, IF Len(atticds) < 2 THEN Len(atticds) ELSE 2)

RoofName(i) == IF i = 1 THEN "roof1" ELSE "roof2"

(* the roof R-value looked up without taking the offset off               *)
ZoneRoofItem_NoOffset(i, atticd, tie) ==
    LET table == roof_center_of_cavity_rvalues[atticd.roofconstype][atticd.extfinish]
        roffset == table[0]
        coc == atticd.roof_coc_rvalue
        floor == atticd.attic_floor_coc_rvalue
        roof_rvalue == NearestKey(DOMAIN table, coc.num, coc.den, tie)
        attic_floor_rvalue ==
            NearestKey(attic_floor_rvalues, floor.num - 5 * floor.den, floor.den, "lo")
    IN [roof_name |-> RoofName(i),
        roof_area |-> atticd.roof_area,
        roof_assembly_code |->
            "rf" \o atticd.roofconstype \o TwoDigits(roof_rvalue) \o atticd.extfinish,
        roof_color |-> atticd.roofcolor,
        roof_type |-> atticd.rooftype,
        roofids |-> atticd.roofids,
        ceiling_assembly_code |->
            IF atticd.rooftype # "cath_ceiling"
            THEN Some("ecwf" \o TwoDigits(attic_floor_rvalue)) ELSE None]

ZoneRoofItem(i, atticd, tie) ==
    LET table == roof_center_of_cavity_rvalues[atticd.roofconstype][atticd.extfinish]
        roffset == table[0]
        coc == atticd.roof_coc_rvalue
        floor == atticd.attic_floor_coc_rvalue
        roof_rvalue == NearestKey(DOMAIN table, coc.num - roffset * coc.den, coc.den, tie)
        attic_floor_rvalue ==
            NearestKey(attic_floor_rvalues, floor.num - 5 * floor.den, floor.den, "lo")
    IN [roof_name |-> RoofName(i),
        roof_area |-> atticd.roof_area,
        roof_assembly_code |->
            "rf" \o atticd.roofconstype \o TwoDigits(roof_rvalue) \o atticd.extfinish,
        roof_color |-> atticd.roofcolor,
        roof_type |-> atticd.rooftype,
        roofids |-> atticd.roofids,
        ceiling_assembly_code |->
            IF atticd.rooftype # "cath_ceiling"
            THEN Some("ecwf" \o TwoDigits(attic_floor_rvalue)) ELSE None]

get_building_zone_roof(attics, roofs, footprint_area, tie) ==
    LET records == AtticRecords(attics, roofs, footprint_area, tie)
        failing == {i \in 1..Len(attics) : Failed(records[i])}
        atticds == [i \in 1..Len(attics) |-> records[i].val]
        zones == IF Len(attics) <= 2
                 THEN Ok([i \in 1..Len(attics) |-> OwnAtticd(atticds[i])])
                 ELSE CombinedAtticds(atticds, tie)
    IN IF failing # {}
       THEN records[CHOOSE i \in failing : \A j \in failing : i <= j]
       ELSE IF Len(attics) = 0
       THEN Raise("TranslationError", "There are no Attic elements in this building.")
       ELSE IF Failed(zones) THEN zones
       ELSE LET largest == LargestTwo(SortedByRoofArea(zones.val))
            IN Ok([i \in 1..Len(largest) |-> ZoneRoofItem(i, largest[i], tie)])


(***************************************************************************)
(* The roof translation on its own: the attics and roofs of a building and *)
(* the footprint area are drawn, then _get_building_zone_roof is applied.  *)
(***************************************************************************)
MaxRoofArea == 2

FootprintArea == 1000

Attic(id, roofidref, area, attic_type, roof_layers, floor_layers) ==
    [id |-> id, roofidref |-> roofidref, area |-> area, attic_type |-> attic_type,
     roof_layers |-> roof_layers, floor_layers |-> floor_layers]

Roof(id, color, roof_type, radiant_barrier) ==
    [id |-> id, color |-> color, roof_type |-> roof_type, radiant_barrier |-> radiant_barrier]

ShingleRoof == Roof("roof1", Some("light"), Some("shingles"), FALSE)

SecondRoofs ==
    {Roof("roof2", Some("dark"), Some("wood shingles or shakes"), TRUE),
     Roof("roof2", Some("medium"), Some("slate or tile shingles"), FALSE),
     Roof("roof2", Some("reflective"), Some("cool roof"), FALSE),
     Roof("roof2", None, Some("shingles"), FALSE)}

RoofLists == {<<>>, <<ShingleRoof>>} \cup {<<ShingleRoof, r>> : r \in SecondRoofs}

TranslatableRoofLists ==
    {<<ShingleRoof, Roof("roof2", Some("dark"), Some("wood shingles or shakes"), TRUE)>>,
     <<ShingleRoof, Roof("roof2", Some("medium"), Some("slate or tile shingles"), FALSE)>>}

RoofInsulationSamples ==
    {<<>>,
     <<Layer(FALSE, FALSE, Some(12))>>,
     <<Layer(TRUE, TRUE, Some(5)), Layer(FALSE, FALSE, Some(19))>>,
     <<Layer(TRUE, TRUE, Some(0)), Layer(FALSE, TRUE, Some(30))>>,
     <<Layer(FALSE, FALSE, None)>>}

FloorInsulationSamples ==
    {<<>>,
     <<Layer(FALSE, FALSE, Some(20))>>,
     <<Layer(FALSE, FALSE, Some(38)), Layer(FALSE, FALSE, Some(30))>>}

AtticTypeSamples == {None, Some("vented attic"), Some("cathedral ceiling"), Some("other")}

RoofInputOf(attics, roofs, tie) ==
    [attics |-> attics, roofs |-> roofs, footprint_area |-> FootprintArea, tie |-> tie]

OneAtticBuildings(tie) ==
    {RoofInputOf(<<Attic("attic1", ref, area, type, rl, fl)>>, roofs, tie) :
        ref \in {None, Some("roof1"), Some("roof2")},
        area \in {None, Some(0), Some(MaxRoofArea)},
        type \in AtticTypeSamples,
        rl \in RoofInsulationSamples,
        fl \in FloorInsulationSamples,
        roofs \in RoofLists}

TwoAtticBuildings(tie) ==
    {RoofInputOf(<<Attic("attic1", Some("roof1"), a1, Some(t1), <<Layer(FALSE, FALSE, Some(12))>>, <<>>),
                   Attic("attic2", Some(ref2), a2, Some(t2), <<>>, <<Layer(FALSE, FALSE, Some(20))>>)>>,
                 roofs, tie) :
        a1 \in {None} \cup {Some(a) : a \in 0..MaxRoofArea},
        a2 \in {None} \cup {Some(a) : a \in 0..MaxRoofArea},
        t1 \in {"vented attic", "cathedral ceiling"},
        t2 \in {"vented attic", "cathedral ceiling"},
        ref2 \in {"roof1", "roof2"},
        roofs \in TranslatableRoofLists}

(* an attic of a building with several: on roof1 with R-12 under the roof, *)
(* or on roof2 with R-20 on the attic floor                                *)
GroupedAttic(id, ref, area, type) ==
    IF ref = "roof1"
    THEN Attic(id, Some(ref), Some(area), Some(type), <<Layer(FALSE, FALSE, Some(12))>>, <<>>)
    ELSE Attic(id, Some(ref), Some(area), Some(type), <<>>, <<Layer(FALSE, FALSE, Some(20))>>)

GroupedAttics(id) ==
    {GroupedAttic(id, ref, area, type) :
        ref \in {"roof1", "roof2"},
        area \in 0..MaxRoofArea,
        type \in {"vented attic", "cathedral ceiling"}}

ThreeAtticBuildings(tie) ==
    {RoofInputOf(<<a1, a2, a3>>, roofs, tie) :
        a1 \in GroupedAttics("attic1"),
        a2 \in GroupedAttics("attic2"),
        a3 \in GroupedAttics("attic3"),
        roofs \in TranslatableRoofLists}

FourAtticBuildings(tie) ==
    {RoofInputOf(<<GroupedAttic("attic1", "roof1", a1, "vented attic"),
                   GroupedAttic("attic2", "roof2", a2, t2),
                   GroupedAttic("attic3", "roof1", a3, "cathedral ceiling"),
                   GroupedAttic("attic4", "roof2", a4, t4)>>,
                 CHOOSE roofs \in TranslatableRoofLists : roofs[2].radiant_barrier, tie) :
        a1 \in 0..MaxRoofArea, a2 \in 0..MaxRoofArea,
        a3 \in 0..MaxRoofArea, a4 \in 0..MaxRoofArea,
        t2 \in {"vented attic", "cathedral ceiling"},
        t4 \in {"unvented attic", "flat roof"}}

MaxRoofR == 28

RoofTypeSamples ==
    {"shingles", "slate or tile shingles", "wood shingles or shakes",
     "plastic/rubber/synthetic sheeting"}

(* nothing, or a rigid continuous layer of R-5, above the cavity           *)
SheathingSamples == {<<>>, <<Layer(TRUE, TRUE, Some(5))>>}

(* one attic with any nominal R-value under a roof of any construction and *)
(* finish                                                                  *)
RoofRValueBuildings(tie) ==
    {RoofInputOf(<<Attic("attic1", None, None, Some("vented attic"),
                         sheathing \o <<Layer(FALSE, FALSE, Some(r))>>, <<>>)>>,
                 <<Roof("roof1", Some("dark"), Some(roof_type), radiant_barrier)>>, tie) :
        sheathing \in SheathingSamples, r \in 0..MaxRoofR,
        roof_type \in RoofTypeSamples, radiant_barrier \in BOOLEAN}

(* two attics on two roofs, each with a nominal R-value of the catalog     *)
TwoRoofRValueBuildings(tie) ==
    {RoofInputOf(<<Attic("attic1", Some("roof1"), Some(a1), Some("vented attic"),
                         <<Layer(FALSE, FALSE, Some(r1))>>, <<>>),
                   Attic("attic2", Some("roof2"), Some(MaxRoofArea), Some("cathedral ceiling"),
                         sheathing \o <<Layer(FALSE, FALSE, Some(r2))>>, <<>>)>>,
                 roofs, tie) :
        a1 \in 1..(MaxRoofArea + 1),
        r1 \in {0, 11, 13, 15, 19, 21}, r2 \in {0, 11, 15, 21, 27},
        sheathing \in SheathingSamples,
        roofs \in TranslatableRoofLists}

RoofInputs(tie) ==
    {RoofInputOf(<<>>, <<ShingleRoof>>, tie)}
    \cup OneAtticBuildings(tie) \cup TwoAtticBuildings(tie)
    \cup RoofRValueBuildings(tie) \cup TwoRoofRValueBuildings(tie)
    \cup ThreeAtticBuildings(tie) \cup FourAtticBuildings(tie)

InitRoof ==
    /\ pc = "zone_roof"
    /\ \E tie \in TiePolicies : inp \in RoofInputs(tie)
    /\ out = NoOut

GetBuildingZoneRoof ==
    /\ pc = "zone_roof"
    /\ out' = get_building_zone_roof(inp.attics, inp.roofs, inp.footprint_area, inp.tie)
    /\ pc' = "done"
    /\ UNCHANGED inp

SpecRoof == InitRoof /\ [][GetBuildingZoneRoof]_vars

(* the zone of zone_roof an attic of a building with one or two attics     *)
(* became, by the roof type and the roof it carries                        *)
IsZoneOfAttic(zone, attic) ==
    /\ zone.roof_type = Val(rooftypemap[Val(attic.attic_type)])
    /\ zone.roofids = {Val(RoofOfAttic(attic, inp.roofs)).id}

(* C6: whenever _get_building_zone_roof returns, zone_roof has one or two  *)
(* entries in order of descending roof_area; two entries of equal area     *)
(* keep the order they had in the list that was sorted: the order of the   *)
(* attics for a building with two attics, the order of the roof type       *)
(* groups for a building with more.                                        *)
C6_ZoneRoofDescending ==
    (pc = "done" /\ out.err = "ok")
    => /\ Len(out.val) \in {1, 2}
       /\ Len(out.val) = 2 =>
            /\ out.val[1].roof_area >= out.val[2].roof_area
            /\ out.val[1].roof_area = out.val[2].roof_area =>
                 IF Len(inp.attics) = 2
                 THEN /\ IsZoneOfAttic(out.val[1], inp.attics[1])
                      /\ IsZoneOfAttic(out.val[2], inp.attics[2])
                 ELSE LET atticds == [i \in 1..Len(inp.attics) |->
                                        AtticRecord(inp.attics[i], inp.attics, inp.roofs,
                                                    inp.footprint_area, inp.tie).val]
                          types == RoofTypesInOrder(atticds, inp.tie)
                      IN /\ out.val[1].roof_type = types[1]
                         /\ out.val[2].roof_type = types[2]

(* two attics, the smaller one first and on another roof than the larger   *)
(* one: the zones come back with the larger one first                      *)
C6_Witness ==
    /\ pc = "done"
    /\ out.err = "ok"
    /\ Len(inp.attics) = 2
    /\ inp.attics[1].area = Some(1)
    /\ inp.attics[2].area = Some(MaxRoofArea)
    /\ inp.attics[2].roofidref = Some("roof2")
    /\ Len(out.val) = 2
    /\ out.val[1].roof_area = MaxRoofArea
    /\ out.val[2].roof_area = 1
    /\ out.val[1].roofids = {"roof2"}

(* two zones of equal area, from two attics on different roofs and from    *)
(* two groups of attics                                                    *)
C6_WitnessEqualAreas ==
    /\ pc = "done"
    /\ out.err = "ok"
    /\ Len(inp.attics) = 2
    /\ Len(out.val) = 2
    /\ out.val[1].roof_area = out.val[2].roof_area
    /\ out.val[1].roofids = {"roof1"}
    /\ out.val[2].roofids = {"roof2"}

C6_WitnessEqualGroups ==
    /\ pc = "done"
    /\ out.err = "ok"
    /\ Len(inp.attics) = 4
    /\ Len(out.val) = 2
    /\ out.val[1].roof_area = out.val[2].roof_area
    /\ out.val[1].roof_type = "vented_attic"


(***************************************************************************)
(* The validator: _validate_hescore_inputs.  A date is the record [year,   *)
(* month, day]; efficiencies, energy factors, U-values and SHGCs are       *)
(* hundredths, window areas are 256ths of a square foot, and a weighted    *)
(* mean is the pair [num, den].  InputOutOfBounds carries the field name   *)
(* and the value that failed.                                              *)
(***************************************************************************)
Date(year, month, day) == [year |-> year, month |-> month, day |-> day]

DateBefore(a, b) ==
    \/ a.year < b.year
    \/ a.year = b.year /\ a.month < b.month
    \/ a.year = b.year /\ a.month = b.month /\ a.day < b.day

InputOutOfBounds(inpname, value) ==
    Raise("InputOutOfBounds", [inpname |-> inpname, value |-> value])

do_bounds_check(fieldname, value, minincl, maxincl) ==
    IF value < minincl \/ value > maxincl
    THEN InputOutOfBounds(fieldname, value) ELSE Ok(TRUE)

(* the same for a date                                                     *)
do_bounds_check_date(fieldname, value, minincl, maxincl) ==
    IF DateBefore(value, minincl) \/ DateBefore(maxincl, value)
    THEN InputOutOfBounds(fieldname, value) ELSE Ok(TRUE)

(* the same for a weighted mean num/den, the bounds given in its unit      *)
do_bounds_check_mean(fieldname, value, minincl, maxincl) ==
    IF value.num < minincl * value.den \/ value.num > maxincl * value.den
    THEN InputOutOfBounds(fieldname, value) ELSE Ok(TRUE)

(* the first check of a sequence of checks that raises, if any             *)
RECURSIVE FirstFailure(_)
FirstFailure(checks) ==
    IF Len(checks) = 0 THEN Ok(TRUE)
    ELSE IF Failed(Head(checks)) THEN Head(checks)
    ELSE FirstFailure(Tail(checks))

ValidateEnvelopeLeakage(about) ==
    IF about.blower_door_test
    THEN do_bounds_check("envelope_leakage", about.envelope_leakage, 0, 25000)
    ELSE Ok(TRUE)

ValidateSkylight(zone_skylight) ==
    FirstFailure(
      <<do_bounds_check("skylight_area", zone_skylight.skylight_area, 0, 300),
        IF zone_skylight.skylight_area > 0 /\ zone_skylight.skylight_method = "custom"
        THEN FirstFailure(
               <<do_bounds_check_mean("skylight_u_value", zone_skylight.skylight_u_value, 1, 500),
                 do_bounds_check_mean("skylight_shgc", zone_skylight.skylight_shgc, 0, 100)>>)
        ELSE Ok(TRUE)>>)

ValidateWindow(zone_window) ==
    FirstFailure(
      <<do_bounds_check("window_area", zone_window.window_area, 0, 999 * 256),
        IF zone_window.window_area > 0 /\ zone_window.window_method = "custom"
        THEN FirstFailure(
               <<do_bounds_check_mean("window_u_value", zone_window.window_u_value, 1, 500),
                 do_bounds_check_mean("window_shgc", zone_window.window_shgc, 0, 100)>>)
        ELSE Ok(TRUE)>>)

(* heating and cooling: name is "heating" or "cooling", maxeff the         *)
(* greatest efficiency                                                     *)
ValidateSystem(name, sys, maxeff, this_year) ==
    IF "efficiency_method" \notin DOMAIN sys
    THEN Raise("KeyError", "efficiency_method")
    ELSE IF sys.efficiency_method = "user"
    THEN do_bounds_check(name \o "_efficiency", sys.efficiency, 10, maxeff)
    ELSE IF sys.efficiency_method # "shipment_weighted"
    THEN Raise("AssertionError", "efficiency_method")
    ELSE do_bounds_check(name \o "_year", sys.year, 1970, this_year)

ValidateDistribution(systems) ==
    IF "hvac_distribution" \notin DOMAIN systems
    THEN Raise("KeyError", "hvac_distribution")
    ELSE FirstFailure([i \in 1..Len(systems.hvac_distribution) |->
                         do_bounds_check("hvac_distribution_fraction",
                                         systems.hvac_distribution[i].fraction, 0, 100)])

ValidateWaterHeater(dhw, this_year) ==
    IF dhw.type \in {"storage", "heat_pump"}
    THEN IF dhw.efficiency_method = "user"
         THEN do_bounds_check("domestic_hot_water_energy_factor", dhw.energy_factor, 10, 300)
         ELSE do_bounds_check("domestic_hot_water_year", dhw.year, 1972, this_year)
    ELSE Ok(TRUE)

validate_hescore_inputs(hescore_inputs, today) ==
    LET about == hescore_inputs.about
        zone == hescore_inputs.zone
        systems == hescore_inputs.systems
        this_year == today.year
    IN FirstFailure(
         <<do_bounds_check_date("assessment_date", about.assessment_date, Date(2010, 1, 1), today),
           do_bounds_check("year_built", about.year_built, 1600, this_year),
           do_bounds_check("number_bedrooms", about.number_bedrooms, 1, 10),
           do_bounds_check("num_floor_above_grade", about.num_floor_above_grade, 1, 4),
           do_bounds_check("floor_to_ceiling_height", about.floor_to_ceiling_height, 6, 12),
           do_bounds_check("conditioned_floor_area", about.conditioned_floor_area, 250, 25000),
           ValidateEnvelopeLeakage(about),
           FirstFailure([i \in 1..Len(zone.zone_roof) |->
                           ValidateSkylight(zone.zone_roof[i].zone_skylight)]),
           do_bounds_check("foundation_insulation_level",
                           zone.zone_floor.foundation_insulation_level, 0, 19),
           FirstFailure([i \in 1..Len(zone.zone_wall) |->
                           ValidateWindow(zone.zone_wall[i].zone_window)]),
           ValidateSystem("heating", systems.heating, 2000, this_year),
           ValidateSystem("cooling", systems.cooling, 3000, this_year),
           ValidateDistribution(systems),
           ValidateWaterHeater(systems.domestic_hot_water, this_year)>>)


(***************************************************************************)
(* The validator on its own: a record as the translation hands it to       *)
(* _validate_hescore_inputs is drawn, a usual record in which at most two  *)
(* fields are replaced, and the validator is applied.                      *)
(***************************************************************************)
Today == Date(2026, 11, 4)

CodeSkylight(area) == [skylight_area |-> area, skylight_method |-> "code", skylight_code |-> "dcaa"]

CustomSkylight(area, u, shgc) ==
    [skylight_area |-> area, skylight_method |-> "custom",
     skylight_u_value |-> [num |-> u * area, den |-> area],
     skylight_shgc |-> [num |-> shgc * area, den |-> area]]

CodeZoneWindow(area) == [window_area |-> area, window_method |-> "code", window_code |-> "dcaa"]

CustomZoneWindow(area, u, shgc) ==
    [window_area |-> area, window_method |-> "custom",
     window_u_value |-> [num |-> u * area, den |-> area],
     window_shgc |-> [num |-> shgc * area, den |-> area]]

UserHeating(eff) ==
    [type |-> "central_furnace", fuel_primary |-> "natural_gas",
     efficiency_method |-> "user", efficiency |-> eff]

ShipmentHeating(year) ==
    [type |-> "boiler", fuel_primary |-> "fuel_oil",
     efficiency_method |-> "shipment_weighted", year |-> year]

UserCooling(eff) == [type |-> "split_dx", efficiency_method |-> "user", efficiency |-> eff]

ShipmentCooling(year) ==
    [type |-> "packaged_dx", efficiency_method |-> "shipment_weighted", year |-> year]

UserWaterHeater(ef) ==
    [category |-> "unit", type |-> "storage", fuel_primary |-> "natural_gas",
     efficiency_method |-> "user", energy_factor |-> ef]

ShipmentWaterHeater(year) ==
    [category |-> "unit", type |-> "heat_pump", fuel_primary |-> "electric",
     efficiency_method |-> "shipment_weighted", year |-> year]

UsualRecord ==
    [assessment_date |-> Date(2020, 6, 15),
     year_built |-> 1990,
     number_bedrooms |-> 3,
     num_floor_above_grade |-> 2,
     floor_to_ceiling_height |-> 8,
     conditioned_floor_area |-> 2000,
     envelope_leakage |-> None,
     skylight |-> [skylight_area |-> 0],
     foundation_insulation_level |-> 0,
     front_window |-> CodeZoneWindow(40 * 256),
     back_window |-> CodeZoneWindow(0),
     heating |-> UserHeating(95),
     cooling |-> UserCooling(1300),
     ducts |-> <<100>>,
     domestic_hot_water |-> UserWaterHeater(60)]

OtherValues ==
    [assessment_date |-> {Date(2009, 12, 31), Date(2010, 1, 1), Today,
                          Date(Today.year, Today.month, Today.day + 1)},
     year_built |-> {1599, 1600, Today.year, Today.year + 1},
     number_bedrooms |-> {0, 1, 10},
     num_floor_above_grade |-> {0, 1, 4, 5},
     floor_to_ceiling_height |-> {5, 6, 12, 13},
     conditioned_floor_area |-> {100, 249, 250, 25000, 25001},
     envelope_leakage |-> {Some(0), Some(25000), Some(25001)},
     skylight |-> {CodeSkylight(300), CodeSkylight(301), CustomSkylight(10, 500, 100),
                   CustomSkylight(10, 501, 40), CustomSkylight(10, 50, 101),
                   CustomSkylight(10, 0, 150)},
     foundation_insulation_level |-> {5, 19},
     front_window |-> {CodeZoneWindow(999 * 256), CodeZoneWindow(999 * 256 + 1),
                       CustomZoneWindow(256, 1, 0), CustomZoneWindow(256, 0, 101)},
     back_window |-> {CodeZoneWindow(999 * 256 + 128), CustomZoneWindow(256, 501, 100),
                      CustomZoneWindow(256, 500, 150)},
     heating |-> {[type |-> "none"], UserHeating(5), UserHeating(10), UserHeating(2000),
                  UserHeating(2010), ShipmentHeating(1970), ShipmentHeating(Today.year),
                  ShipmentHeating(Today.year + 1)},
     cooling |-> {[type |-> "none"], UserCooling(0), UserCooling(3000), UserCooling(3500),
                  ShipmentCooling(Today.year), ShipmentCooling(Today.year + 1)},
     ducts |-> {<<60, 40>>},
     domestic_hot_water |-> {UserWaterHeater(10), UserWaterHeater(300), UserWaterHeater(350),
                             ShipmentWaterHeater(1972), ShipmentWaterHeater(Today.year + 1),
                             [category |-> "combined", type |-> "indirect"]}]

(* the records that differ from a usual one in at most two fields, each    *)
(* of which takes one of the other values given for it                     *)
Variations(usual, others) ==
    UNION {UNION {{[[usual EXCEPT ![f] = v] EXCEPT ![g] = w] :
                      v \in others[f] \cup {usual[f]},
                      w \in others[g] \cup {usual[g]}} :
                  g \in DOMAIN usual} :
           f \in DOMAIN usual}

HescoreInputsOf(fields) ==
    [about |->
        [assessment_date |-> fields.assessment_date,
         year_built |-> fields.year_built,
         number_bedrooms |-> fields.number_bedrooms,
         num_floor_above_grade |-> fields.num_floor_above_grade,
         floor_to_ceiling_height |-> fields.floor_to_ceiling_height,
         conditioned_floor_area |-> fields.conditioned_floor_area,
         blower_door_test |-> ~IsNone(fields.envelope_leakage)]
        @@ (IF IsNone(fields.envelope_leakage) THEN [air_sealing_present |-> FALSE]
            ELSE [envelope_leakage |-> Val(fields.envelope_leakage)]),
     zone |->
        [zone_roof |-> <<[zone_skylight |-> fields.skylight],
                         [zone_skylight |-> [skylight_area |-> 0]]>>,
         zone_floor |-> [foundation_insulation_level |-> fields.foundation_insulation_level],
         zone_wall |-> <<[zone_window |-> fields.front_window],
                         [zone_window |-> fields.back_window]>>],
     systems |->
        [heating |-> fields.heating,
         cooling |-> fields.cooling,
         domestic_hot_water |-> fields.domestic_hot_water]
        @@ (IF fields.heating.type = "none" /\ fields.cooling.type = "none"
            THEN <<>>
            ELSE [hvac_distribution |->
                    [i \in 1..Len(fields.ducts) |-> [fraction |-> fields.ducts[i]]]])]

ValidateInputs(today) ==
    {[hescore_inputs |-> HescoreInputsOf(fields), today |-> today] :
        fields \in Variations(UsualRecord, OtherValues)
                   \cup Variations([UsualRecord EXCEPT !.heating = [type |-> "none"]],
                                   OtherValues)}

InitValidate ==
    /\ pc = "validate"
    /\ inp \in ValidateInputs(Today)
    /\ out = NoOut

ValidateHescoreInputs ==
    /\ pc = "validate"
    /\ out' = validate_hescore_inputs(inp.hescore_inputs, inp.today)
    /\ pc' = "done"
    /\ UNCHANGED inp

SpecValidate == InitValidate /\ [][ValidateHescoreInputs]_vars


(* The fields of a record with their values, in the order assessment_date, *)
(* year_built, number_bedrooms, num_floor_above_grade,                     *)
(* floor_to_ceiling_height, conditioned_floor_area, envelope_leakage,      *)
(* skylight fields per roof, foundation_insulation_level, window fields    *)
(* per wall, heating, cooling, duct fractions, water heater; bad says      *)
(* whether the value is outside the inclusive range of the field.          *)
Field(inpname, value, bad) == [inpname |-> inpname, value |-> value, bad |-> bad]

Outside(value, minincl, maxincl) == value < minincl \/ value > maxincl

MeanOutside(value, minincl, maxincl) ==
    value.num < minincl * value.den \/ value.num > maxincl * value.den

RECURSIVE Concat(_)
Concat(seqs) == IF Len(seqs) = 0 THEN <<>> ELSE Head(seqs) \o Concat(Tail(seqs))

GlazingFields(prefix, z) ==
    <<Field(prefix \o "_area", z[prefix \o "_area"],
            Outside(z[prefix \o "_area"], 0,
                    IF prefix = "skylight" THEN 300 ELSE 999 * 256))>>
    \o (IF z[prefix \o "_area"] > 0 /\ z[prefix \o "_method"] = "custom"
        THEN <<Field(prefix \o "_u_value", z[prefix \o "_u_value"],
                     MeanOutside(z[prefix \o "_u_value"], 1, 500)),
               Field(prefix \o "_shgc", z[prefix \o "_shgc"],
                     MeanOutside(z[prefix \o "_shgc"], 0, 100))>>
        ELSE <<>>)

SystemFields(name, sys, maxeff, this_year) ==
    IF "efficiency" \in DOMAIN sys
    THEN <<Field(name \o "_efficiency", sys.efficiency, Outside(sys.efficiency, 10, maxeff))>>
    ELSE IF "year" \in DOMAIN sys
    THEN <<Field(name \o "_year", sys.year, Outside(sys.year, 1970, this_year))>>
    ELSE <<>>

WaterHeaterFields(dhw, this_year) ==
    IF "energy_factor" \in DOMAIN dhw
    THEN <<Field("domestic_hot_water_energy_factor", dhw.energy_factor,
                 Outside(dhw.energy_factor, 10, 300))>>
    ELSE IF "year" \in DOMAIN dhw
    THEN <<Field("domestic_hot_water_year", dhw.year, Outside(dhw.year, 1972, this_year))>>
    ELSE <<>>

FieldsInOrder(hescore_inputs, today) ==
    LET about == hescore_inputs.about
        zone == hescore_inputs.zone
        systems == hescore_inputs.systems
    IN <<Field("assessment_date", about.assessment_date,
               \/ DateBefore(about.assessment_date, Date(2010, 1, 1))
               \/ DateBefore(today, about.assessment_date)),
         Field("year_built", about.year_built, Outside(about.year_built, 1600, today.year)),
         Field("number_bedrooms", about.number_bedrooms, Outside(about.number_bedrooms, 1, 10)),
         Field("num_floor_above_grade", about.num_floor_above_grade,
               Outside(about.num_floor_above_grade, 1, 4)),
         Field("floor_to_ceiling_height", about.floor_to_ceiling_height,
               Outside(about.floor_to_ceiling_height, 6, 12)),
         Field("conditioned_floor_area", about.conditioned_floor_area,
               Outside(about.conditioned_floor_area, 250, 25000))>>
       \o (IF "envelope_leakage" \in DOMAIN about
           THEN <<Field("envelope_leakage", about.envelope_leakage,
                        Outside(about.envelope_leakage, 0, 25000))>>
           ELSE <<>>)
       \o Concat([i \in 1..Len(zone.zone_roof) |->
                    GlazingFields("skylight", zone.zone_roof[i].zone_skylight)])
       \o <<Field("foundation_insulation_level", zone.zone_floor.foundation_insulation_level,
                  Outside(zone.zone_floor.foundation_insulation_level, 0, 19))>>
       \o Concat([i \in 1..Len(zone.zone_wall) |->
                    GlazingFields("window", zone.zone_wall[i].zone_window)])
       \o SystemFields("heating", systems.heating, 2000, today.year)
       \o SystemFields("cooling", systems.cooling, 3000, today.year)
       \o (IF "hvac_distribution" \in DOMAIN systems
           THEN [i \in 1..Len(systems.hvac_distribution) |->
                   Field("hvac_distribution_fraction", systems.hvac_distribution[i].fraction,
                         Outside(systems.hvac_distribution[i].fraction, 0, 100))]
           ELSE <<>>)
       \o WaterHeaterFields(systems.domestic_hot_water, today.year)

FirstOutOfRange(fields) ==
    fields[CHOOSE i \in 1..Len(fields) : fields[i].bad /\ \A j \in 1..(i - 1) : ~fields[j].bad]

Reports(result, field) ==
    /\ result.err = "InputOutOfBounds"
    /\ result.val.inpname = field.inpname
    /\ result.val.value = field.value

FirstViolationReported ==
    LET fields == FieldsInOrder(inp.hescore_inputs, inp.today)
        cfa == inp.hescore_inputs.about.conditioned_floor_area
    IN /\ (\E i \in 1..Len(fields) : fields[i].bad) => Reports(out, FirstOutOfRange(fields))
       /\ ((\A i \in 1..5 : ~fields[i].bad) /\ cfa = 100)
            => Reports(out, Field("conditioned_floor_area", 100, TRUE))
       /\ cfa \in {250, 25000}
            => ~(out.err = "InputOutOfBounds" /\ out.val.inpname = "conditioned_floor_area")

(* C5: when one or several fields of the record are out of range,          *)
(* _validate_hescore_inputs raises InputOutOfBounds with the name and the  *)
(* value of the first of them in the fixed order of the fields, and        *)
(* nothing of the later ones; the bounds are inclusive: with the fields    *)
(* before it in range a conditioned_floor_area of 100 is reported with the *)
(* value 100, one of 250 or 25000 is not reported.                         *)
C5_FirstViolationReported == pc = "done" => FirstViolationReported

(* the part of C5 the code keeps: the same for the records whose heating   *)
(* and cooling both are a system (not of type none)                        *)
C5_FirstViolationReportedWithSystems ==
    (/\ pc = "done"
     /\ inp.hescore_inputs.systems.heating.type # "none"
     /\ inp.hescore_inputs.systems.cooling.type # "none")
    => FirstViolationReported

(* no heating system, and a cooling efficiency and an energy factor that   *)
(* are both out of range: the validator ends with a KeyError and reports   *)
(* neither                                                                 *)
C5_KeyErrorBeforeCooling ==
    /\ pc = "done"
    /\ inp.hescore_inputs.systems.heating = [type |-> "none"]
    /\ inp.hescore_inputs.systems.cooling = UserCooling(3500)
    /\ inp.hescore_inputs.systems.domestic_hot_water = UserWaterHeater(350)
    /\ out.err = "KeyError"

(* a conditioned_floor_area of 100 and an energy factor out of range: only *)
(* the first is reported                                                   *)
C5_FirstOfTwoReported ==
    /\ pc = "done"
    /\ inp.hescore_inputs.about.conditioned_floor_area = 100
    /\ inp.hescore_inputs.systems.domestic_hot_water = UserWaterHeater(350)
    /\ Reports(out, Field("conditioned_floor_area", 100, TRUE))


(***************************************************************************)
(* Address, building summary, footprint, skylights and water heater.       *)
(* Floor areas are tenths of a square foot, ceiling heights tenths of a    *)
(* foot, the number of floors is in halves, energy factors are             *)
(* thousandths in the document and hundredths in the record.               *)
(***************************************************************************)
assessment_type_map ==
    [e \in {"audit", "proposed workscope", "approved workscope",
            "construction-period testing/daily test out",
            "job completion testing/final inspection", "quality assurance/monitoring"} |->
        CASE e = "audit" -> "initial"
          [] e \in {"proposed workscope", "approved workscope"} -> "alternative"
          [] e = "construction-period testing/daily test out" -> "test"
          [] e = "job completion testing/final inspection" -> "final"
          [] OTHER -> "qa"]

get_building_address(address) ==
    IF address.address_type # "street"
    THEN Raise("TranslationError", "The house address must be a street address.")
    ELSE IF address.transaction = "create"
    THEN IF address.event_type \notin DOMAIN assessment_type_map
         THEN Raise("KeyError", address.event_type)
         ELSE Ok([address |-> address.address1,
                  assessment_type |-> assessment_type_map[address.event_type]])
    ELSE IF address.transaction # "update"
    THEN Raise("AssertionError", "transaction_type")
    ELSE Ok([address |-> address.address1, assessment_type |-> "corrected"])

shape_map ==
    [t \in {"single-family detached", "single-family attached", "manufactured home",
            "2-4 unit building", "5+ unit building", "multi-family - uncategorized",
            "multi-family - town homes", "multi-family - condos", "apartment unit",
            "studio unit", "other", "unknown"} |->
        IF t = "single-family detached" THEN Some("rectangle")
        ELSE IF t \in {"single-family attached", "multi-family - town homes"}
        THEN Some("town_house")
        ELSE None]

town_house_walls_map ==
    [t \in {"stand-alone", "attached on one side", "attached on two sides",
            "attached on three sides"} |->
        IF t = "attached on one side" THEN Some("back_right_front")
        ELSE IF t = "attached on two sides" THEN Some("back_front")
        ELSE None]

orientation_of_azimuth ==
    (0 :> "north") @@ (45 :> "north_east") @@ (90 :> "east") @@ (135 :> "south_east") @@
    (180 :> "south") @@ (225 :> "south_west") @@ (270 :> "west") @@ (315 :> "north_west")

(* the blower door test the loop over the measurements ends with: the last *)
(* one at 50 Pa in CFM, or in ACH when none was taken before it            *)
RECURSIVE BlowerDoorTest(_, _)
BlowerDoorTest(measurements, taken) ==
    IF Len(measurements) = 0 THEN taken
    ELSE LET m == Head(measurements)
         IN BlowerDoorTest(Tail(measurements),
               IF /\ m.type = "blower door"
                  /\ m.house_pressure = Some(50)
                  /\ (m.units = Some("CFM") \/ (m.units = Some("ACH") /\ IsNone(taken)))
               THEN Some(m) ELSE taken)

(* the last measurement that is an estimate                                *)
RECURSIVE AirInfiltrationEstimate(_, _)
AirInfiltrationEstimate(measurements, taken) ==
    IF Len(measurements) = 0 THEN taken
    ELSE LET m == Head(measurements)
         IN AirInfiltrationEstimate(Tail(measurements),
               IF m.type # "blower door" /\ m.type = "estimate" THEN Some(m) ELSE taken)

ShapeOf(summary) ==
    IF IsNone(summary.facility_type) \/ Val(summary.facility_type) \notin DOMAIN shape_map
    THEN Raise("TranslationError", "ResidentialFacilityType is required in the HPXML document")
    ELSE IF IsNone(shape_map[Val(summary.facility_type)])
    THEN Raise("TranslationError",
               "Cannot translate HPXML ResidentialFacilityType into HEScore building shape")
    ELSE IF Val(shape_map[Val(summary.facility_type)]) # "town_house"
    THEN Ok([shape |-> "rectangle", town_house_walls |-> None])
    ELSE IF \/ IsNone(summary.surroundings)
            \/ Val(summary.surroundings) \notin DOMAIN town_house_walls_map
    THEN Raise("TranslationError",
               "Site/Surroundings element is required in the HPXML document for town houses")
    ELSE IF IsNone(town_house_walls_map[Val(summary.surroundings)])
    THEN Raise("TranslationError",
               "Cannot translate HPXML Site/Surroundings element value into HEScore town_house_walls")
    ELSE Ok([shape |-> "town_house",
             town_house_walls |-> town_house_walls_map[Val(summary.surroundings)]])

(* year_built to conditioned_floor_area, or the error of a missing element *)
ConstructionOf(summary) ==
    IF IsNone(summary.year_built) \/ IsNone(summary.bedrooms)
    THEN Raise("TypeError", "int() argument must be a string or a number, not 'NoneType'")
    ELSE IF IsNone(summary.floors)
    THEN Raise("TypeError", "float() argument must be a string or a number")
    ELSE IF IsNone(summary.ceiling_height) /\ (IsNone(summary.volume) \/ IsNone(summary.cfa))
    THEN Raise("TypeError", "float() argument must be a string or a number")
    ELSE IF IsNone(summary.ceiling_height) /\ Val(summary.cfa) = 0
    THEN Raise("ZeroDivisionError", "float division by zero")
    ELSE IF IsNone(summary.cfa)
    THEN Raise("TypeError", "float() argument must be a string or a number")
    ELSE Ok([year_built |-> Val(summary.year_built),
             number_bedrooms |-> IF Val(summary.bedrooms) > 10 THEN 10 ELSE Val(summary.bedrooms),
             num_floor_above_grade |-> (Val(summary.floors) + 1) \div 2,
             floor_to_ceiling_height |->
                IF IsNone(summary.ceiling_height)
                THEN PyRound(10 * Val(summary.volume), Val(summary.cfa))
                ELSE PyRound(Val(summary.ceiling_height), 10),
             conditioned_floor_area |-> PyRound(Val(summary.cfa), 10)])

AirLeakageOf(summary, construction) ==
    LET test == BlowerDoorTest(summary.measurements, None)
        estimate == AirInfiltrationEstimate(summary.measurements, None)
    IN IF ~IsNone(test)
       THEN IF IsNone(Val(test).leakage)
            THEN Raise("TypeError", "float() argument must be a string or a number")
            ELSE IF Val(test).units = Some("CFM")
            THEN Ok([blower_door_test |-> TRUE, envelope_leakage |-> Val(Val(test).leakage)])
            ELSE Ok([blower_door_test |-> TRUE,
                     envelope_leakage |->
                        PyRound(construction.floor_to_ceiling_height
                                  * construction.conditioned_floor_area
                                  * Val(Val(test).leakage), 60)])
       ELSE Ok([blower_door_test |-> FALSE,
                air_sealing_present |->
                   \/ summary.air_sealing
                   \/ /\ ~IsNone(estimate)
                      /\ IsIn(Val(estimate).leakiness, {"tight", "very tight"})])

(* the date of the run whatever the document says                          *)
AssessmentDate_AlwaysToday(summary, today) == today

(* the date of the audit event of the building, else the date of the run   *)
AssessmentDate(summary, today) ==
    IF IsNone(summary.date) THEN today ELSE Val(summary.date)

(* the record about together with the azimuth the front of the house has   *)
get_building_about(summary, today) ==
    LET shape == ShapeOf(summary)
        construction == ConstructionOf(summary)
        house_azimuth == get_nearest_azimuth(summary.azimuth, summary.orientation)
    IN IF Failed(shape) THEN shape
       ELSE IF Failed(construction) THEN construction
       ELSE IF Failed(house_azimuth) THEN house_azimuth
       ELSE LET leakage == AirLeakageOf(summary, construction.val)
            IN IF Failed(leakage) THEN leakage
               ELSE Ok([about |->
                           [assessment_date |-> AssessmentDate(summary, today),
                            orientation |-> orientation_of_azimuth[house_azimuth.val]]
                           @@ shape.val @@ construction.val @@ leakage.val,
                        house_azimuth |-> house_azimuth.val])

get_footprint_area(about, zone_floor) ==
    LET stories == about.num_floor_above_grade
                   + (IF zone_floor.foundation_type = "cond_basement" THEN 1 ELSE 0)
    IN IF stories = 0
       THEN Raise("ZeroDivisionError", "integer division or modulo by zero")
       ELSE Ok(about.conditioned_floor_area \div stories)


(* the skylights of the building as one zone_skylight record; areas are    *)
(* whole square feet                                                       *)
get_skylights(skylights, tie) ==
    LET custom == SelectSeq(skylights, HasUAndSHGC)
        Total(ss) == SeqSum([i \in 1..Len(ss) |-> Val(ss[i].area)])
        codes == [i \in 1..Len(skylights) |-> get_window_code(skylights[i])]
        failing == {i \in 1..Len(skylights) : Failed(codes[i])}
        present == SelectSeq(window_codes, LAMBDA c : \E i \in 1..Len(skylights) :
                                                         codes[i].val = c)
        CodeArea(code) == SeqSum([i \in 1..Len(skylights) |->
                                    IF codes[i].val = code THEN Val(skylights[i].area) ELSE 0])
    IN IF Len(skylights) = 0 THEN Ok([skylight_area |-> 0])
       ELSE IF \E i \in 1..Len(skylights) : IsNone(skylights[i].area)
       THEN Raise("TranslationError", "Every skylight needs an area.")
       ELSE IF Len(custom) > 0
       THEN IF Total(custom) = 0
            THEN Raise("ZeroDivisionError", "float division by zero")
            ELSE Ok([skylight_area |-> Total(skylights), skylight_method |-> "custom",
                     skylight_u_value |->
                        [num |-> SeqSum([i \in 1..Len(custom) |->
                                           Val(custom[i].uvalue) * Val(custom[i].area)]),
                         den |-> Total(custom)],
                     skylight_shgc |->
                        [num |-> SeqSum([i \in 1..Len(custom) |->
                                           Val(custom[i].shgc) * Val(custom[i].area)]),
                         den |-> Total(custom)]])
       ELSE IF failing # {}
       THEN codes[CHOOSE i \in failing : \A j \in failing : i <= j]
       ELSE Ok([skylight_area |-> Total(skylights), skylight_method |-> "code",
                skylight_code |-> MaxAreaKey(present,
                                             [c \in SeqToSet(present) |-> CodeArea(c)], tie)])

(* the water heater the record is made of: the only one, the first one     *)
(* when a FractionDHWLoadServed is missing, else the first of those with   *)
(* the greatest fraction                                                   *)
primarydhw(water_heating_systems) ==
    IF Len(water_heating_systems) = 1 THEN water_heating_systems[1]
    ELSE IF \E i \in 1..Len(water_heating_systems) : IsNone(water_heating_systems[i].fraction)
    THEN water_heating_systems[1]
    ELSE water_heating_systems[
           CHOOSE i \in 1..Len(water_heating_systems) :
              \A j \in 1..Len(water_heating_systems) :
                 \/ Val(water_heating_systems[i].fraction) > Val(water_heating_systems[j].fraction)
                 \/ /\ Val(water_heating_systems[i].fraction)
                         = Val(water_heating_systems[j].fraction)
                    /\ i <= j]

WaterHeaterMinYear == 1972

WaterHeaterEfficiency(dhw) ==
    IF ~IsNone(dhw.energy_factor)
    THEN Ok([efficiency_method |-> "user", energy_factor |-> PyRound(Val(dhw.energy_factor), 10)])
    ELSE IF IsNone(dhw.year)
    THEN Raise("TypeError", "int() argument must be a string or a number, not 'NoneType'")
    ELSE Ok([efficiency_method |-> "shipment_weighted",
             year |-> ClampYear(Val(dhw.year), WaterHeaterMinYear)])

get_systems_dhw(water_heating_systems, sys_heating) ==
    IF Len(water_heating_systems) = 0
    THEN Raise("TranslationError", "No water heating systems found.")
    ELSE LET dhw == primarydhw(water_heating_systems)
             efficiency == WaterHeaterEfficiency(dhw)
         IN IF IsIn(dhw.type, {"storage water heater", "instantaneous water heater"})
            THEN IF IsNone(dhw.fuel) \/ Val(dhw.fuel) \notin DOMAIN fuel_type_mapping
                 THEN Raise("KeyError", "fuel_type_mapping")
                 ELSE IF Failed(efficiency) THEN efficiency
                 ELSE Ok([category |-> "unit", type |-> "storage",
                          fuel_primary |-> fuel_type_mapping[Val(dhw.fuel)]]
                         @@ efficiency.val)
            ELSE IF IsIn(dhw.type, {"space-heating boiler with storage tank",
                                    "space-heating boiler with tankless coil"})
            THEN IF sys_heating.type # "boiler"
                 THEN Raise("TranslationError",
                            "Cannot have an indirect or tankless coil water heater if the primary heating system is not a boiler.")
                 ELSE Ok([category |-> "combined",
                          type |-> IF Is(dhw.type, "space-heating boiler with storage tank")
                                   THEN "indirect" ELSE "tankless_coil"])
            ELSE IF Is(dhw.type, "heat pump water heater")
            THEN IF Failed(efficiency) THEN efficiency
                 ELSE Ok([category |-> "unit", type |-> "heat_pump", fuel_primary |-> "electric"]
                         @@ efficiency.val)
            ELSE Raise("TranslationError", "HEScore cannot model the water heater type")


(***************************************************************************)
(* The translation: hpxml_to_hescore_dict, without the NREL assumptions.   *)
(***************************************************************************)
(* a roof zone without its hidden keys, with its skylights                 *)
WithSkylight(zone_roof_item, zone_skylight) ==
    [roof_name |-> zone_roof_item.roof_name,
     roof_area |-> zone_roof_item.roof_area,
     roof_assembly_code |-> zone_roof_item.roof_assembly_code,
     roof_color |-> zone_roof_item.roof_color,
     roof_type |-> zone_roof_item.roof_type,
     ceiling_assembly_code |-> zone_roof_item.ceiling_assembly_code,
     zone_skylight |-> zone_skylight]

(* the only element of a set of one                                        *)
TheOne(S) == CHOOSE r \in S : TRUE

(* the calls of hpxml_to_hescore_dict in their order, by the name of what  *)
(* they compute                                                            *)
Statements ==
    <<"building_address", "about", "zone_floor", "footprint_area", "zone_roof",
      "zone_skylight", "zone_wall", "heating", "cooling", "hvac_distribution",
      "domestic_hot_water">>

(* the outcome of one call, computed had being what the earlier calls      *)
(* returned; hvac_distribution is None when the call is skipped            *)
Statement(name, had, doc, today, tie) ==
    CASE name = "building_address" -> get_building_address(doc.address)
      [] name = "about" -> get_building_about(doc.summary, today)
      [] name = "zone_floor" -> get_building_zone_floor(doc.foundations, tie)
      [] name = "footprint_area" -> get_footprint_area(had.about.about, had.zone_floor)
      [] name = "zone_roof" ->
            get_building_zone_roof(doc.roofing.attics, doc.roofing.roofs,
                                   had.footprint_area, tie)
      [] name = "zone_skylight" -> get_skylights(doc.skylights, tie)
      [] name = "zone_wall" ->
            get_building_zone_wall(doc.enclosure.walls, doc.enclosure.windows,
                                   had.about.about, had.about.house_azimuth, tie)
      [] name = "heating" ->
            get_systems_heating(doc.hvac.plant, doc.hvac.primaryHeating, tie)
      [] name = "cooling" ->
            get_systems_cooling(doc.hvac.plant, doc.hvac.primaryCooling, tie)
      [] name = "hvac_distribution" ->
            IF ~(had.cooling.type = "none" /\ had.heating.type = "none")
            THEN LET hvac_distribution == get_systems_hvac_distribution(doc.distribution, tie)
                 IN IF Failed(hvac_distribution) THEN hvac_distribution
                    ELSE Ok(Some(hvac_distribution.val))
            ELSE Ok(None)
      [] name = "domestic_hot_water" ->
            get_systems_dhw(doc.water_heating_systems, had.heating)

(* the calls from the k-th on: the error of the first that raises, else    *)
(* what all of them returned                                               *)
RECURSIVE RunStatements(_, _, _, _, _)
RunStatements(k, had, doc, today, tie) ==
    IF k > Len(Statements) THEN Ok(had)
    ELSE TheOne({IF Failed(returned) THEN returned
                 ELSE RunStatements(k + 1, had @@ (Statements[k] :> returned.val),
                                    doc, today, tie) :
                    returned \in {Statement(Statements[k], had, doc, today, tie)}})

(* the record put together, without the hidden keys                        *)
HescoreInputs(had) ==
    [building_address |-> had.building_address,
     about |-> [had.about.about EXCEPT !.town_house_walls = had.zone_wall.town_house_walls],
     zone |->
        [zone_roof |->
            [i \in 1..Len(had.zone_roof) |->
               WithSkylight(had.zone_roof[i],
                            IF i = 1 THEN had.zone_skylight ELSE [skylight_area |-> 0])],
         zone_floor |-> had.zone_floor,
         wall_construction_same |-> FALSE,
         window_construction_same |-> FALSE,
         zone_wall |-> had.zone_wall.zone_wall],
     systems |->
        [heating |-> had.heating, cooling |-> had.cooling,
         domestic_hot_water |-> had.domestic_hot_water]
        @@ (IF IsNone(had.hvac_distribution) THEN <<>>
            ELSE [hvac_distribution |-> Val(had.hvac_distribution)])]

hpxml_to_hescore_dict(doc, today, tie) ==
    TheOne({IF Failed(ran) THEN ran
            ELSE IF Failed(validate_hescore_inputs(HescoreInputs(ran.val), today))
            THEN validate_hescore_inputs(HescoreInputs(ran.val), today)
            ELSE Ok(HescoreInputs(ran.val)) :
               ran \in {RunStatements(1, <<>>, doc, today, tie)}})


(***************************************************************************)
(* The translation of a document: a usual building in which at most two    *)
(* parts are replaced is drawn, and hpxml_to_hescore_dict is applied.      *)
(***************************************************************************)
Address(address_type, transaction) ==
    [address_type |-> address_type, transaction |-> transaction, event_type |-> "audit",
     address1 |-> "1 Main St"]

UsualSummary ==
    [date |-> Some(Date(2020, 6, 15)), facility_type |-> Some("single-family detached"),
     surroundings |-> None, year_built |-> Some(1990), bedrooms |-> Some(3),
     floors |-> Some(4), ceiling_height |-> Some(80), volume |-> None, cfa |-> Some(20000),
     azimuth |-> Some(0), orientation |-> None, measurements |-> <<>>, air_sealing |-> FALSE]

Measurement(type, units, leakage) ==
    [type |-> type, house_pressure |-> Some(50), units |-> Some(units),
     leakage |-> leakage, leakiness |-> None]

WaterHeater(type, fuel, energy_factor, year) ==
    [fraction |-> None, type |-> Some(type), fuel |-> fuel,
     energy_factor |-> energy_factor, year |-> year]

DuctSystem(ducts) == [ducts |-> ducts, cfa |-> None, sealed |-> TRUE]

VentedAttic(attic_type) ==
    Attic("attic1", Some("roof1"), None, attic_type, <<>>, <<Layer(FALSE, FALSE, Some(30))>>)

Plant(plant) == [plant |-> plant, primaryHeating |-> None, primaryCooling |-> None]

GasFurnace == HeatingSystem("Furnace", "natural gas", Eff("AFUE", 95), None, Some(50000))

CentralAir == CoolingSystem("central air conditioning", Eff("SEER", 1300), None, Some(30000))

FrontWindow ==
    CodeWindow(Some(10), "Vinyl", None, Some("double-pane"), Some("low-e"), Some("argon"),
               None, Some(0))

UsualDocument ==
    [address |-> Address("street", "create"),
     summary |-> UsualSummary,
     foundations |-> <<Foundation("Basement", FALSE, <<>>, <<>>, <<[area |-> None, r |-> 19]>>)>>,
     roofing |-> [attics |-> <<VentedAttic(Some("vented attic"))>>, roofs |-> <<ShingleRoof>>],
     skylights |-> <<>>,
     enclosure |-> [walls |-> FourPlainWalls(0), windows |-> <<FrontWindow>>],
     hvac |-> Plant(<<GasFurnace, CentralAir>>),
     distribution |->
        <<DuctSystem(<<[loc |-> "conditioned space", frac |-> 3, ins |-> FALSE],
                       [loc |-> "unconditioned attic", frac |-> 1, ins |-> TRUE]>>)>>,
     water_heating_systems |->
        <<WaterHeater("storage water heater", Some("natural gas"), Some(604), None)>>]

OtherParts ==
    [address |-> {Address("mailing", "create"), Address("street", "update")},
     summary |->
        {[UsualSummary EXCEPT !.cfa = Some(1000)],
         [UsualSummary EXCEPT !.year_built = None],
         [UsualSummary EXCEPT !.floors = Some(0)],
         [UsualSummary EXCEPT !.facility_type = Some("apartment unit")],
         [UsualSummary EXCEPT !.azimuth = None],
         [UsualSummary EXCEPT !.date = None, !.bedrooms = Some(12),
                              !.ceiling_height = None, !.volume = Some(17000),
                              !.measurements = <<Measurement("blower door", "ACH", Some(6))>>],
         [UsualSummary EXCEPT !.facility_type = Some("single-family attached"),
                              !.surroundings = Some("attached on one side")]},
     foundations |->
        {<<>>,
         <<Foundation("SlabOnGrade", FALSE, <<>>, <<>>, <<>>)>>,
         <<Foundation("Basement", TRUE, <<>>, <<>>, <<[area |-> Some(0), r |-> 19]>>)>>},
     roofing |->
        {[attics |-> <<>>, roofs |-> <<ShingleRoof>>],
         [attics |-> <<VentedAttic(None)>>, roofs |-> <<ShingleRoof>>],
         [attics |-> <<VentedAttic(Some("cathedral ceiling")), VentedAttic(Some("vented attic"))>>,
          roofs |-> <<ShingleRoof>>]},
     skylights |->
        {<<CustomWindow(Some(4), None, 50, 60, None, None)>>,
         <<CustomWindow(Some(0), None, 50, 60, None, None)>>,
         <<CodeWindow(None, "Vinyl", None, Some("single-pane"), None, None, None, None)>>,
         <<CodeWindow(Some(301), "Vinyl", None, Some("single-pane"), None, None, None, None)>>},
     enclosure |->
        {[walls |-> SubSeq(FourPlainWalls(0), 1, 3), windows |-> <<FrontWindow>>],
         [walls |-> SubSeq(FourPlainWalls(0), 1, 3), windows |-> <<>>],
         [walls |-> FourPlainWalls(0) \o <<PlainWall("wall5", 45)>>, windows |-> <<>>],
         [walls |-> FourPlainWalls(0),
          windows |-> <<CodeWindow(Some(10), "Wood", None, Some("double-pane"), None, None,
                                   None, Some(45))>>]},
     hvac |->
        {Plant(<<>>), Plant(<<CentralAir>>), Plant(<<GasFurnace>>),
         Plant(<<HeatingSystem("ElectricResistance", "electricity", <<>>, None, Some(30000)),
                 CentralAir>>),
         Plant(<<HeatingSystem("Furnace", "natural gas", <<>>, None, Some(30000)), CentralAir>>),
         Plant(<<HeatingSystem("Boiler", "fuel oil", <<>>, Some(1965), Some(30000)),
                 CoolingSystem("evaporative cooler", <<>>, Some(2005), Some(30000))>>),
         Plant(<<HeatPump("air-to-air", Eff("HSPF", 820), Eff("SEER", 3450), Some(50000),
                          Some(30000))>>)},
     distribution |->
        {<<>>, <<DuctSystem(<<[loc |-> "garage", frac |-> 0, ins |-> FALSE]>>)>>},
     water_heating_systems |->
        {<<>>,
         <<WaterHeater("space-heating boiler with storage tank", None, None, None)>>,
         <<WaterHeater("heat pump water heater", None, None, Some(1960))>>,
         <<WaterHeater("storage water heater", Some("natural gas"), None, None)>>,
         <<WaterHeater("storage water heater", Some("wood"), Some(604), None)>>,
         <<WaterHeater("instantaneous water heater", Some("propane"), Some(3500), None)>>}]

TranslateInputs(tie) ==
    {[doc |-> d, today |-> Today, tie |-> tie] : d \in Variations(UsualDocument, OtherParts)}

Init ==
    /\ pc = "translate"
    /\ \E tie \in TiePolicies : inp \in TranslateInputs(tie)
    /\ out = NoOut

HpxmlToHescoreDict ==
    /\ pc = "translate"
    /\ out' = hpxml_to_hescore_dict(inp.doc, inp.today, inp.tie)
    /\ pc' = "done"
    /\ UNCHANGED inp

Next == HpxmlToHescoreDict

Spec == Init /\ [][Next]_vars

(* C4: every call of hpxml_to_hescore_dict returns a record or fails with  *)
(* a TranslationError or an InputOutOfBounds error; no other kind of       *)
(* failure escapes, also not for a building without heating or cooling     *)
(* system, with electric baseboard heating, or with a side without wall.   *)
C4_OnlyDeclaredErrorsEscape ==
    pc = "done" => out.err \in {"ok", "TranslationError", "InputOutOfBounds"}

(* the usual building is translated                                        *)
C4_UsualTranslates ==
    /\ pc = "done"
    /\ inp.doc = UsualDocument
    /\ out.err = "ok"

(* a building with a cooling system and no heating system ends in the      *)
(* KeyError of the validator                                               *)
C4_NoHeatingKeyError ==
    /\ pc = "done"
    /\ [inp.doc EXCEPT !.hvac = UsualDocument.hvac] = UsualDocument
    /\ inp.doc.hvac = Plant(<<CentralAir>>)
    /\ out = Raise("KeyError", "efficiency_method")

(* a building without a wall on its left side ends in a division by zero   *)
(* or a KeyError                                                           *)
C4_SideWithoutWall ==
    /\ pc = "done"
    /\ [inp.doc EXCEPT !.enclosure = UsualDocument.enclosure] = UsualDocument
    /\ inp.doc.enclosure.walls = SubSeq(FourPlainWalls(0), 1, 3)
    /\ out.err \in {"ZeroDivisionError", "KeyError"}


(***************************************************************************)
(* get_window_code on its own: every combination of frame, thermal break,  *)
(* glass layers, glass type and gas fill is drawn and classified.          *)
(***************************************************************************)
FrameTypes ==
    {"Aluminum", "Metal", "Vinyl", "Wood", "Fiberglass", "Composite", "Other", ""}

ThermalBreaks == {None, Some(TRUE), Some(FALSE)}

GlassLayerChoices ==
    {None} \cup {Some(g) : g \in {"single-pane", "double-pane", "triple-pane", "multi-layered",
                                  "single-paned with storms",
                                  "single-paned with low-e storms", "other"}}

GlassTypeChoices ==
    {None} \cup {Some(g) : g \in {"low-e", "tinted", "reflective", "tinted/reflective", "other"}}

GasFillChoices == {None} \cup {Some(g) : g \in {"air", "argon", "krypton", "other"}}

WindowCodeInputs(frames) ==
    {[window |-> CodeWindow(None, frame, thermal_break, glass_layers, glass_type, gas_fill,
                            None, None)] :
        frame \in frames, thermal_break \in ThermalBreaks, glass_layers \in GlassLayerChoices,
        glass_type \in GlassTypeChoices, gas_fill \in GasFillChoices}

InitWindowCode ==
    /\ pc = "window_code"
    /\ inp \in WindowCodeInputs(FrameTypes)
    /\ out = NoOut

GetWindowCode ==
    /\ pc = "window_code"
    /\ out' = get_window_code(inp.window)
    /\ pc' = "done"
    /\ UNCHANGED inp

SpecWindowCode == InitWindowCode /\ [][GetWindowCode]_vars

(* C11: get_window_code is total: for every combination of frame type,     *)
(* thermal break, glass layers, glass type and gas fill it returns one     *)
(* code of the catalog of eighteen or raises TranslationError 'Cannot      *)
(* translate window type.'; Vinyl, double-pane, low-e, argon gives         *)
(* 'dpeaaw'; Aluminum or Metal with a thermal break and single-pane        *)
(* glazing raises the error.                                               *)
C11_WindowCodeTotal ==
    pc = "done" =>
       /\ \/ /\ out.err = "ok"
             /\ out.val \in {"scna", "stna", "dcaa", "dtaa", "dseaa", "dcab", "dtab", "dseab",
                             "dpeaab", "scnw", "stnw", "dcaw", "dtaw", "dpeaw", "dpeaaw",
                             "dseaw", "dseaaw", "thmabw"}
          \/ out = Raise("TranslationError", "Cannot translate window type.")
       /\ (/\ inp.window.frame = "Vinyl"
           /\ inp.window.glass_layers = Some("double-pane")
           /\ inp.window.glass_type = Some("low-e")
           /\ inp.window.gas_fill = Some("argon")) => out = Ok("dpeaaw")
       /\ (/\ inp.window.frame \in {"Aluminum", "Metal"}
           /\ inp.window.thermal_break = Some(TRUE)
           /\ inp.window.glass_layers = Some("single-pane"))
             => out = Raise("TranslationError", "Cannot translate window type.")

(* the aluminum frame with a thermal break and single-pane glazing has     *)
(* been refused                                                            *)
C11_Witness ==
    /\ pc = "done"
    /\ inp.window.frame = "Aluminum"
    /\ inp.window.thermal_break = Some(TRUE)
    /\ inp.window.glass_layers = Some("single-pane")
    /\ out.err = "TranslationError"

(* the vinyl frame with double-pane low-e argon glazing has its code       *)
C11_WitnessVinyl ==
    /\ pc = "done"
    /\ inp.window.frame = "Vinyl"
    /\ inp.window.glass_layers = Some("double-pane")
    /\ inp.window.glass_type = Some("low-e")
    /\ inp.window.gas_fill = Some("argon")
    /\ out = Ok("dpeaaw")


(***************************************************************************)
(* get_wall_assembly_code on its own: a wall of every type, with every     *)
(* siding of the enumeration and with up to two insulation layers that     *)
(* carry a NominalRValue, is drawn and its assembly code is built.         *)
(***************************************************************************)
MaxLayerR == 42

WallKindChoices ==
    {WallKind("WoodStud", eps, ove) : eps \in BOOLEAN, ove \in BOOLEAN}
      \cup {WallKind(wtype, FALSE, FALSE) :
               wtype \in {"StructuralBrick", "ConcreteMasonryUnit", "Stone", "StrawBale",
                          "SteelFrame"}}

AllSidings == {None} \cup {Some(siding) : siding \in DOMAIN sidingmap}

LayerKinds == {[rigid |-> rigid, continuous |-> continuous] :
                  rigid \in BOOLEAN, continuous \in BOOLEAN}

PairLayerR == {0, 5, 13, 19}

WallLayerChoices(maxr) ==
    {<<>>}
      \cup {<<Layer(k.rigid, k.continuous, Some(r))>> : k \in LayerKinds, r \in 0..maxr}
      \cup {<<Layer(k1.rigid, k1.continuous, Some(r1)), Layer(k2.rigid, k2.continuous, Some(r2))>> :
               k1 \in LayerKinds, k2 \in LayerKinds, r1 \in PairLayerR, r2 \in PairLayerR}

WallCodeInputs(maxr) ==
    {w \in {[hpxmlwall |-> Wall("wall1", kind, layers, siding, None, None, None)] :
               kind \in WallKindChoices, siding \in AllSidings,
               layers \in WallLayerChoices(maxr)} :
        \/ Len(w.hpxmlwall.layers) < 2
        \/ w.hpxmlwall.siding \in {None, Some("vinyl siding"), Some("stucco")}}

InitWallCode ==
    /\ pc = "wall_code"
    /\ inp \in WallCodeInputs(MaxLayerR)
    /\ out = NoOut

GetWallAssemblyCode ==
    /\ pc = "wall_code"
    /\ out' = get_wall_assembly_code(inp.hpxmlwall)
    /\ pc' = "done"
    /\ UNCHANGED inp

SpecWallCode == InitWallCode /\ [][GetWallAssemblyCode]_vars

(* v is a value of S that no other value of S is nearer to x than           *)
IsNearestOf(v, x, S) == v \in S /\ \A y \in S : Abs(x - v) <= Abs(x - y)

(* the sum of the R-values of all layers, and of those that are not both   *)
(* rigid and continuous                                                    *)
AllLayersR(layers) == SeqSum([i \in 1..Len(layers) |-> Val(layers[i].r)])

CavityLayersR(layers) ==
    SeqSum([i \in 1..Len(layers) |->
              IF layers[i].rigid /\ layers[i].continuous THEN 0 ELSE Val(layers[i].r)])

HasContinuousRigidLayer(wall) ==
    \E i \in 1..Len(wall.layers) : wall.layers[i].rigid /\ wall.layers[i].continuous

(* C12: for a WoodStud wall with a mapped siding the code is 'ew', the     *)
(* subtype, the two-digit nominal R and the siding code; the subtype is    *)
(* 'ps' with a continuous rigid layer or the polystyrene sheathing flag,   *)
(* else 'ov' with the optimum value engineering flag, else 'wf'; the R is  *)
(* the cavity R-value snapped to the nearest of 0,3,7,11,13,15,19,21 for   *)
(* ps and wf and of 19,21,27,33,38 for ov; R-13 plus a continuous rigid    *)
(* layer with vinyl siding gives 'ewps13vi'.                               *)
C12_WoodStudCode ==
    (/\ pc = "done"
     /\ inp.hpxmlwall.wtype = "WoodStud"
     /\ ~IsNone(inp.hpxmlwall.siding)
     /\ ~IsNone(sidingmap[Val(inp.hpxmlwall.siding)]))
    => LET wall == inp.hpxmlwall
           subtype == IF HasContinuousRigidLayer(wall) \/ wall.eps THEN <<"p", "s">>
                      ELSE IF wall.ove THEN <<"o", "v">> ELSE <<"w", "f">>
           cavity == CavityLayersR(wall.layers)
           catalog == IF subtype = <<"o", "v">> THEN {19, 21, 27, 33, 38}
                      ELSE {0, 3, 7, 11, 13, 15, 19, 21}
       IN /\ out.err = "ok"
          /\ Len(out.val) = 8
          /\ SubSeq(out.val, 1, 2) = <<"e", "w">>
          /\ SubSeq(out.val, 3, 4) = subtype
          /\ IsNearestOf(IntOfDigits(SubSeq(out.val, 5, 6)), cavity, catalog)
          /\ SubSeq(out.val, 7, 8) = CodeChars[Val(sidingmap[Val(wall.siding)])]
          /\ (/\ wall.layers = <<Layer(FALSE, FALSE, Some(13)), Layer(TRUE, TRUE, Some(5))>>
              /\ wall.siding = Some("vinyl siding"))
                => out.val = <<"e", "w", "p", "s", "1", "3", "v", "i">>

(* the wall of R-13 with a continuous rigid layer and vinyl siding, both   *)
(* flags set, has been given 'ewps13vi'                                    *)
C12_Witness ==
    /\ pc = "done"
    /\ inp.hpxmlwall.wtype = "WoodStud"
    /\ inp.hpxmlwall.ove /\ inp.hpxmlwall.eps
    /\ inp.hpxmlwall.layers = <<Layer(FALSE, FALSE, Some(13)), Layer(TRUE, TRUE, Some(5))>>
    /\ inp.hpxmlwall.siding = Some("vinyl siding")
    /\ out = Ok(<<"e", "w", "p", "s", "1", "3", "v", "i">>)

(* an optimum value engineering wall of R-30 has been given R 27 or 33     *)
C12_WitnessOve ==
    /\ pc = "done"
    /\ inp.hpxmlwall.wtype = "WoodStud"
    /\ inp.hpxmlwall.ove /\ ~inp.hpxmlwall.eps
    /\ inp.hpxmlwall.layers = <<Layer(FALSE, FALSE, Some(30))>>
    /\ out.err = "ok"
    /\ SubSeq(out.val, 3, 6) \in {<<"o", "v", "2", "7">>, <<"o", "v", "3", "3">>}


(* C15: for a ConcreteMasonryUnit or Stone wall the code is 'ewcb', the    *)
(* sum of all layer R-values snapped to the nearest of 0, 3, 6, and the    *)
(* siding: 'nn' without siding, 'st' for stucco, 'br' for brick; any other *)
(* siding raises the TranslationError that a CMU wall needs a siding of    *)
(* stucco, brick, or none.                                                 *)
C15_MasonryCode ==
    (pc = "done" /\ inp.hpxmlwall.wtype \in {"ConcreteMasonryUnit", "Stone"})
    => LET wall == inp.hpxmlwall
           total == AllLayersR(wall.layers)
           siding == IF IsNone(wall.siding) THEN <<"n", "n">>
                     ELSE IF Val(wall.siding) \in {"stucco", "synthetic stucco"}
                     THEN <<"s", "t">>
                     ELSE IF Val(wall.siding) = "brick veneer" THEN <<"b", "r">>
                     ELSE <<>>
       IN IF siding = <<>>
          THEN out = Raise("TranslationError",
                           "Wall wall1: is a CMU and needs a siding of stucco, brick, or none to translate to HEScore. It has a siding type of "
                             \o Val(wall.siding))
          ELSE /\ out.err = "ok"
               /\ Len(out.val) = 8
               /\ SubSeq(out.val, 1, 4) = <<"e", "w", "c", "b">>
               /\ IsNearestOf(IntOfDigits(SubSeq(out.val, 5, 6)), total, {0, 3, 6})
               /\ SubSeq(out.val, 7, 8) = siding

(* a masonry wall with vinyl siding has been refused                       *)
C15_Witness ==
    /\ pc = "done"
    /\ inp.hpxmlwall.wtype = "ConcreteMasonryUnit"
    /\ inp.hpxmlwall.siding = Some("vinyl siding")
    /\ out.err = "TranslationError"

(* a stone wall with two layers of R-5, one of them rigid and continuous,  *)
(* and stucco has been given R 6                                           *)
C15_WitnessStone ==
    /\ pc = "done"
    /\ inp.hpxmlwall.wtype = "Stone"
    /\ inp.hpxmlwall.layers = <<Layer(FALSE, FALSE, Some(5)), Layer(TRUE, TRUE, Some(5))>>
    /\ inp.hpxmlwall.siding = Some("stucco")
    /\ out = Ok(<<"e", "w", "c", "b", "0", "6", "s", "t">>)


(***************************************************************************)
(* Two translations of one document on two days: the first on the day      *)
(* today, the second on a later day.  out holds both outcomes.             *)
(***************************************************************************)
LaterDays == {Date(2026, 11, 5), Date(2027, 3, 1)}

NextYear == Today.year + 1

DatedSummaries ==
    {[UsualSummary EXCEPT !.date = date, !.year_built = Some(year_built)] :
        date \in {None, Some(Date(2020, 6, 15)), Some(Date(2026, 11, 5)),
                  Some(Date(2009, 12, 31))},
        year_built \in {1990, Today.year, NextYear}}

DatedPlants ==
    {Plant(<<GasFurnace, CentralAir>>),
     Plant(<<HeatingSystem("Furnace", "natural gas", <<>>, Some(NextYear), Some(50000)),
             CentralAir>>),
     Plant(<<GasFurnace,
             CoolingSystem("central air conditioning", <<>>, Some(NextYear), Some(30000))>>),
     Plant(<<GasFurnace,
             CoolingSystem("central air conditioning", Eff("SEER", 3450), None, Some(30000))>>)}

DatedWaterHeaters ==
    {UsualDocument.water_heating_systems,
     <<WaterHeater("storage water heater", Some("natural gas"), None, Some(NextYear))>>,
     <<WaterHeater("storage water heater", Some("natural gas"), None, Some(1960))>>,
     <<>>}

TwoRunInputs(tie) ==
    {[doc |-> [UsualDocument EXCEPT !.summary = summary, !.hvac = hvac,
                                    !.water_heating_systems = water_heating_systems],
      today |-> Today, later |-> later, tie |-> tie] :
        summary \in DatedSummaries, hvac \in DatedPlants,
        water_heating_systems \in DatedWaterHeaters, later \in LaterDays}

InitTwoRuns ==
    /\ pc = "first_run"
    /\ \E tie \in TiePolicies : inp \in TwoRunInputs(tie)
    /\ out = [first |-> NoOut, second |-> NoOut]

(* one run of the translation: the first on the day today, the second on   *)
(* the later day                                                           *)
TranslateOnDay ==
    /\ pc \in {"first_run", "second_run"}
    /\ out' = [out EXCEPT ![IF pc = "first_run" THEN "first" ELSE "second"] =
                  hpxml_to_hescore_dict(inp.doc,
                                        IF pc = "first_run" THEN inp.today ELSE inp.later,
                                        inp.tie)]
    /\ pc' = IF pc = "first_run" THEN "second_run" ELSE "done"
    /\ UNCHANGED inp

SpecTwoRuns == InitTwoRuns /\ [][TranslateOnDay]_vars

(* two records that differ at most in the assessment_date                  *)
SameButAssessmentDate(a, b) ==
    [a EXCEPT !.about.assessment_date = Today] = [b EXCEPT !.about.assessment_date = Today]

(* two outcomes that are the same, or two records of a document without    *)
(* assessment date that differ in the assessment_date only                 *)
SameOutcome(a, b) ==
    \/ a.err = b.err /\ a.err # "InputOutOfBounds" /\ a.val = b.val
    \/ /\ a.err = "InputOutOfBounds" /\ b.err = "InputOutOfBounds"
       /\ a.val.inpname = b.val.inpname
       /\ a.val.value = b.val.value
    \/ /\ a.err = "ok" /\ b.err = "ok"
       /\ IsNone(inp.doc.summary.date)
       /\ SameButAssessmentDate(a.val, b.val)

(* the fields the validator bounds by the date of the run                  *)
DateBoundFields ==
    {"assessment_date", "year_built", "heating_year", "cooling_year", "domestic_hot_water_year"}

IsDateBoundFailure(a) ==
    a.err = "InputOutOfBounds" /\ a.val.inpname \in DateBoundFields

(* C13: two translations of the same document with the same flags yield    *)
(* the same outcome, record or error, whatever the date of each run,       *)
(* except for the assessment_date of a document without assessment date.   *)
C13_SameOutcomeOnAnyDay == pc = "done" => SameOutcome(out.first, out.second)

(* C13 as amended: the outcomes are the same but for the assessment_date   *)
(* of a document without assessment date, unless one of the runs fails a   *)
(* bound that the validator takes from the date of the run.                *)
C13_SameOutcomeButDateBounds ==
    pc = "done" =>
       \/ SameOutcome(out.first, out.second)
       \/ IsDateBoundFailure(out.first)
       \/ IsDateBoundFailure(out.second)

(* a document without assessment date has been translated on two days into *)
(* records that differ                                                     *)
C13_Witness ==
    /\ pc = "done"
    /\ IsNone(inp.doc.summary.date)
    /\ out.first.err = "ok" /\ out.second.err = "ok"
    /\ out.first # out.second

(* a house built next year has been refused this year and translated the   *)
(* next                                                                    *)
C13_RefusedThenTranslated ==
    /\ pc = "done"
    /\ inp.doc.summary.year_built = Some(NextYear)
    /\ out.first = InputOutOfBounds("year_built", NextYear)
    /\ out.second.err = "ok"



(***************************************************************************)
(* ConditionedFloorAreaServed in _get_systems_hvac_distribution            *)
(***************************************************************************)
CfaServedMessage ==
    "All HVACDistribution elements need to have or NOT have the ConditionFloorAreaServed subelement."

AllHaveCfaServed(systems) == \A i \in 1..Len(systems) : ~IsNone(systems[i].cfa)

AllMissingCfaServed(systems) == \A i \in 1..Len(systems) : IsNone(systems[i].cfa)

MixedCfaServed(systems) ==
    Len(systems) > 1 /\ ~AllHaveCfaServed(systems) /\ ~AllMissingCfaServed(systems)

RECURSIVE OtherTotals(_, _, _)
(* the product of the duct fraction totals of the systems other than i     *)
OtherTotals(systems, i, j) ==
    IF j > Len(systems) THEN 1
    ELSE (IF j = i \/ Len(systems[j].ducts) = 0 THEN 1 ELSE total_duct_frac(systems[j]))
         * OtherTotals(systems, i, j + 1)

(* the sum over the systems of the fraction of the ducts at loc divided by *)
(* the system's total, times the floor area served when scaled, as a       *)
(* numerator over the product of the totals                                *)
ClaimedWeight(systems, loc, scaled) ==
    SeqSum([i \in 1..Len(systems) |->
               IF Len(systems[i].ducts) = 0 THEN 0
               ELSE (IF scaled THEN Val(systems[i].cfa) ELSE 1)
                    * DuctFracAt(systems[i].ducts, loc) * OtherTotals(systems, i, 1)])

(* the buckets hold the percentages of the weights of their locations, the *)
(* first bucket taking what the others leave of 100                        *)
BucketsAsClaimed(systems, buckets, scaled) ==
    LET total == SeqSum([i \in 1..Len(buckets) |->
                            ClaimedWeight(systems, buckets[i].location, scaled)])
    IN /\ \A i \in 2..Len(buckets) :
             buckets[i].fraction =
                 PyRound(100 * ClaimedWeight(systems, buckets[i].location, scaled), total)
       /\ Len(buckets) > 0 => BucketFractionSum(buckets) = 100

ScalingAsClaimed ==
    /\ (out.err = "ok" /\ Len(inp.systems) > 0 /\ AllHaveCfaServed(inp.systems))
          => BucketsAsClaimed(inp.systems, out.val, TRUE)
    /\ (out.err = "ok" /\ AllMissingCfaServed(inp.systems))
          => BucketsAsClaimed(inp.systems, out.val, FALSE)

(* C14: a building with two or more air distribution systems of which some *)
(* give ConditionedFloorAreaServed and others do not is refused with a     *)
(* TranslationError; when all give it the normalized duct fractions of     *)
(* each system are scaled by its floor area served before they are summed  *)
(* per location, when none gives it they are summed unscaled.              *)
C14_FloorAreaServedAgreement ==
    pc = "done" =>
       /\ MixedCfaServed(inp.systems) => out.err = "TranslationError"
       /\ ScalingAsClaimed

(* C14 for buildings in which the ducts of every system are read and       *)
(* normalized without an exception                                         *)
C14_AgreementWhenNormalized ==
    (pc = "done" /\ ~Failed(FirstSysError(inp.systems))) =>
       /\ MixedCfaServed(inp.systems) => out = Raise("TranslationError", CfaServedMessage)
       /\ ScalingAsClaimed

(* of two systems the first gives no floor area served and has ducts whose *)
(* fractions sum to zero, the second gives one: the division by the total  *)
(* fails before the systems are compared                                   *)
C14_ZeroTotalBeforeAgreement ==
    /\ pc = "done"
    /\ Len(inp.systems) = 2
    /\ IsNone(inp.systems[1].cfa) /\ ~IsNone(inp.systems[2].cfa)
    /\ total_duct_frac(inp.systems[1]) = 0
    /\ out.err = "ZeroDivisionError"

(* two systems that disagree are refused                                   *)
C14_MixedRefused ==
    /\ pc = "done"
    /\ MixedCfaServed(inp.systems)
    /\ out = Raise("TranslationError", CfaServedMessage)

(* one system without floor area served, 60% of its ducts in conditioned   *)
(* space and 40% in the unconditioned basement                             *)
C14_Scenario ==
    /\ pc = "done"
    /\ Len(inp.systems) = 1 /\ IsNone(inp.systems[1].cfa)
    /\ inp.systems[1].ducts = <<[loc |-> "conditioned space", frac |-> 3, ins |-> FALSE],
                                [loc |-> "unconditioned basement", frac |-> 2, ins |-> FALSE]>>
    /\ out.err = "ok" /\ Len(out.val) = 2
    /\ out.val[1].location = "cond_space" /\ out.val[1].fraction = 60
    /\ out.val[2].location = "uncond_basement" /\ out.val[2].fraction = 40

(* two systems with floor areas served 3 and 1: the first, all in          *)
(* conditioned space, outweighs the second, all in the attic, 75 to 25     *)
C14_ScaledByFloorArea ==
    /\ pc = "done"
    /\ Len(inp.systems) = 2
    /\ inp.systems[1].cfa = Some(MaxCfa) /\ inp.systems[2].cfa = Some(1)
    /\ \A i \in 1..Len(inp.systems[1].ducts) : inp.systems[1].ducts[i].loc = "conditioned space"
    /\ \A i \in 1..Len(inp.systems[2].ducts) : inp.systems[2].ducts[i].loc = "unconditioned attic"
    /\ out.err = "ok" /\ Len(out.val) = 2
    /\ out.val[1].location = "cond_space" /\ out.val[1].fraction = 75
    /\ out.val[2].location = "uncond_attic" /\ out.val[2].fraction = 25



(***************************************************************************)
(* Town houses: windows on shared walls                                    *)
(***************************************************************************)
SharedWallsError == Raise("TranslationError", "The house has windows on shared walls.")

(* the walls of the input have been translated and its windows assigned to *)
(* sides                                                                   *)
WindowsAssigned ==
    /\ ~Failed(InputWallsBySide)
    /\ ~Failed(SideWalls(InputWallsBySide.val, inp.tie))
    /\ ~Failed(hpxmlwindows(inp.bldg.windows, InputWallsBySide.val,
                            sidemap(inp.bldg.house_azimuth), inp.tie))

(* the sides some window of the input is assigned to                       *)
SidesWithWindows ==
    {side \in Sides :
        Len(hpxmlwindows(inp.bldg.windows, InputWallsBySide.val,
                         sidemap(inp.bldg.house_azimuth), inp.tie).val[side]) > 0}

(* no exposed sides of a town house attached on one side or on two hold    *)
(* all the windows                                                         *)
NoExposedSidesFit ==
    IF inp.bldg.about.town_house_walls = Some("back_right_front")
    THEN /\ ~(SidesWithWindows \subseteq {"back", "right", "front"})
         /\ ~(SidesWithWindows \subseteq {"back", "front", "left"})
    ELSE ~(SidesWithWindows \subseteq {"back", "front"})

(* C16: for a town house whose windows have been assigned to sides the     *)
(* translation raises 'The house has windows on shared walls.' exactly     *)
(* when a window is on a side that is not exposed, after one switch from   *)
(* back_right_front to back_front_left and none from back_front; when it   *)
(* succeeds no side missing from the final town_house_walls has a window.  *)
C16_WindowsOnSharedWalls ==
    pc = "done" =>
       /\ out = SharedWallsError => inp.bldg.about.shape = "town_house"
       /\ (inp.bldg.about.shape = "town_house" /\ WindowsAssigned) =>
             /\ out = SharedWallsError <=> NoExposedSidesFit
             /\ out.err = "ok" =>
                   /\ ~IsNone(out.val.town_house_walls)
                   /\ SidesWithWindows \subseteq
                         town_house_sides[Val(out.val.town_house_walls)]

(* a town house attached on one side with a window on the left only: the   *)
(* exposed sides are switched                                              *)
C16_Witness ==
    /\ pc = "done"
    /\ inp.bldg.about = TownHouse("back_right_front")
    /\ WindowsAssigned
    /\ "left" \in SidesWithWindows
    /\ out.err = "ok"
    /\ out.val.town_house_walls = Some("back_front_left")

(* windows on the left and on the right: refused after the switch          *)
C16_WitnessRefused ==
    /\ pc = "done"
    /\ inp.bldg.about = TownHouse("back_right_front")
    /\ WindowsAssigned
    /\ {"left", "right"} \subseteq SidesWithWindows
    /\ out = SharedWallsError

(* attached on two sides with a window on the left: refused at once        *)
C16_WitnessTwoSides ==
    /\ pc = "done"
    /\ inp.bldg.about = TownHouse("back_front")
    /\ WindowsAssigned
    /\ SidesWithWindows = {"left"}
    /\ out = SharedWallsError



(***************************************************************************)
(* Roof R-value round trip                                                 *)
(***************************************************************************)
(* the summed NominalRValue of the roof insulation layers of an attic that *)
(* are not rigid and continuous                                            *)
RoofNominalR(attic) ==
    SeqSum([i \in 1..Len(attic.roof_layers) |->
               IF attic.roof_layers[i].rigid /\ attic.roof_layers[i].continuous THEN 0
               ELSE Val(attic.roof_layers[i].r)])

(* the place in zone_roof of the attic i of a building with one or two     *)
(* attics: the larger attic first, the first attic first when equal        *)
ZoneIndexOfAttic(i) ==
    IF Len(inp.attics) = 2 /\ Val(inp.attics[1].area) < Val(inp.attics[2].area)
    THEN 3 - i ELSE i

(* C17: in a building with one or two attics, for each attic whose summed  *)
(* roof insulation R-value r, continuous rigid layers left out, is a key   *)
(* of the centre-of-cavity table of its construction type and exterior     *)
(* finish, the roof_assembly_code is 'rf' + construction type + r in two   *)
(* digits + exterior finish.                                               *)
C17_RoofRValueRoundTrip ==
    (pc = "done" /\ out.err = "ok" /\ Len(inp.attics) \in {1, 2}) =>
       \A i \in 1..Len(inp.attics) :
          LET attic == inp.attics[i]
              roof == Val(RoofOfAttic(attic, inp.roofs))
              ct == roofconstype(attic, roof)
              ef == Val(extfinishmap[Val(roof.roof_type)])
          IN ((\A k \in 1..Len(attic.roof_layers) : ~IsNone(attic.roof_layers[k].r))
                /\ RoofNominalR(attic) \in DOMAIN roof_center_of_cavity_rvalues[ct][ef])
             => out.val[ZoneIndexOfAttic(i)].roof_assembly_code
                   = "rf" \o ct \o TwoDigits(RoofNominalR(attic)) \o ef

(* R-11 under wood shingles on a wood frame roof                           *)
C17_Witness ==
    /\ pc = "done" /\ out.err = "ok"
    /\ Len(inp.attics) = 1
    /\ inp.attics[1].roof_layers = <<Layer(FALSE, FALSE, Some(11))>>
    /\ inp.roofs[1].roof_type = Some("wood shingles or shakes")
    /\ ~inp.roofs[1].radiant_barrier
    /\ out.val[1].roof_assembly_code = "rfwf11wo"

(* two attics, the second the larger one, with rigid sheathing and R-21    *)
C17_WitnessTwoAttics ==
    /\ pc = "done" /\ out.err = "ok"
    /\ Len(inp.attics) = 2
    /\ inp.attics[1].area = Some(1)
    /\ inp.attics[1].roof_layers = <<Layer(FALSE, FALSE, Some(19))>>
    /\ inp.attics[2].roof_layers = <<Layer(TRUE, TRUE, Some(5)), Layer(FALSE, FALSE, Some(21))>>
    /\ inp.roofs[2].roof_type = Some("slate or tile shingles")
    /\ out.val[1].roof_assembly_code = "rfps21lc"
    /\ out.val[2].roof_assembly_code = "rfwf19co"



(***************************************************************************)
(* Foundation insulation round trip                                        *)
(***************************************************************************)
(* C18: when the selected foundation has exactly one FoundationWall whose  *)
(* nominal R-value is 0, 11 or 19, the foundation_insulation_level         *)
(* returned is that value; when it is a slab on grade with exactly one     *)
(* Slab whose perimeter insulation R-value is 0 or 5, the level returned   *)
(* is that value.  The level returned is always 0, 11 or 19 for a          *)
(* foundation with walls, 0 or 5 for a slab on grade and 0 otherwise.      *)
C18_FoundationInsulationRoundTrip ==
    (pc = "done" /\ out.err = "ok") =>
       LET fnd == SelectedFoundation(inp.foundations)
           level == out.val.foundation_insulation_level
       IN /\ (Len(fnd.walls) = 1 /\ fnd.walls[1].r \in {0, 11, 19})
                => level = fnd.walls[1].r
          /\ (fnd.ftype = "SlabOnGrade" /\ Len(fnd.slabs) = 1 /\ fnd.slabs[1].r \in {0, 5})
                => level = fnd.slabs[1].r
          /\ IF Len(fnd.walls) > 0 THEN level \in {0, 11, 19}
             ELSE IF fnd.ftype = "SlabOnGrade" THEN level \in {0, 5}
             ELSE level = 0

(* a crawlspace with one foundation wall of R-11                           *)
C18_Witness ==
    /\ pc = "done" /\ out.err = "ok"
    /\ Len(inp.foundations) = 1
    /\ inp.foundations[1].ftype = "Crawlspace"
    /\ Len(inp.foundations[1].walls) = 1
    /\ inp.foundations[1].walls[1].r = 11
    /\ out.val.foundation_insulation_level = 11

(* a slab on grade with one slab of R-5 at the perimeter                   *)
C18_WitnessSlab ==
    /\ pc = "done" /\ out.err = "ok"
    /\ Len(inp.foundations) = 1
    /\ inp.foundations[1].ftype = "SlabOnGrade"
    /\ Len(inp.foundations[1].slabs) = 1
    /\ inp.foundations[1].slabs[1].r = 5
    /\ out.val.foundation_insulation_level = 5

(* a foundation wall of area 0: the mean divides by zero                   *)
C18_WitnessZeroArea ==
    /\ pc = "done"
    /\ Len(inp.foundations) = 1
    /\ Len(inp.foundations[1].walls) = 1
    /\ inp.foundations[1].walls[1].area = Some(0)
    /\ out.err = "ZeroDivisionError"



(***************************************************************************)
(* Windows between two sides                                               *)
(***************************************************************************)
(* the building of the input has one window, placed by its azimuth or      *)
(* orientation, whose nearest azimuth is none of the four side azimuths,   *)
(* and is no town house; its walls have been translated                    *)
OneWindowBetweenSides ==
    /\ inp.bldg.about.shape # "town_house"
    /\ ~Failed(InputWallsBySide)
    /\ ~Failed(SideWalls(InputWallsBySide.val, inp.tie))
    /\ Len(inp.bldg.windows) = 1
    /\ IsNone(inp.bldg.windows[1].attached)
    /\ ~IsNone(inp.bldg.windows[1].area)
    /\ HasUAndSHGC(inp.bldg.windows[1]) \/ ~Failed(get_window_code(inp.bldg.windows[1]))
    /\ ~Failed(WallAzimuth(inp.bldg.windows[1]))
    /\ WallAzimuth(inp.bldg.windows[1]).val \notin DOMAIN sidemap(inp.bldg.house_azimuth)

(* Area times Quantity of a window, in 256ths of a square foot             *)
WindowArea256(w) == 256 * Val(w.area) * (IF IsNone(w.qty) THEN 1 ELSE Val(w.qty))

(* the sum of window_area over the four sides of a zone_wall               *)
TotalWindowArea(zone_wall) ==
    SeqSum([i \in 1..Len(zone_wall) |-> zone_wall[i].zone_window.window_area])

(* C19: a window whose nearest azimuth lies between two sides of the       *)
(* building is assigned to both neighbouring sides, each side receiving    *)
(* half of its area (Area times Quantity), so that it contributes its full *)
(* area to the sum of window_area over the four sides.                     *)
C19_WindowBetweenSidesSplit ==
    (pc = "done" /\ OneWindowBetweenSides) =>
       LET w == inp.bldg.windows[1]
           sm == sidemap(inp.bldg.house_azimuth)
           az == WallAzimuth(w).val
       IN /\ out.err = "ok"
          /\ \A x \in {-45, 45} :
                ZoneWallOf(out.val.zone_wall, sm[unspin_azimuth(az + x)]).zone_window.window_area
                   = WindowArea256(w) \div 2
          /\ TotalWindowArea(out.val.zone_wall) = WindowArea256(w)

(* a window of azimuth 45 on a house that faces north: the look-up of its  *)
(* side fails                                                              *)
C19_KeyErrorBetweenSides ==
    /\ pc = "done"
    /\ OneWindowBetweenSides
    /\ inp.bldg.windows[1].azimuth = Some(45)
    /\ out = Raise("KeyError", "sidemap[wndw_azimuth]")

(* a window of 8 square feet attached to a wall across a corner: one side  *)
(* receives a half, the other a quarter                                    *)
C19_AttachedWindowQuartered ==
    /\ pc = "done"
    /\ out.err = "ok"
    /\ Len(inp.bldg.windows) = 1
    /\ inp.bldg.windows[1].attached = Some("wall5")
    /\ WindowArea256(inp.bldg.windows[1]) = 2048
    /\ TotalWindowArea(out.val.zone_wall) = 1536



(***************************************************************************)
(* Walls between two sides                                                 *)
(***************************************************************************)
(* the entries with the id of a wall among the walls of a side             *)
EntriesOf(bySide, wall, side) ==
    SelectSeq(bySide[side], LAMBDA walld : walld.id = wall.id)

(* the sides a wall of nearest azimuth az belongs to                       *)
SidesOfAzimuth(az, sm) ==
    IF az \in DOMAIN sm THEN {sm[az]}
    ELSE {sm[(az + 45) % 360], sm[(az + 315) % 360]}

(* the walls of the input have been put on sides, each by its own azimuth  *)
(* or orientation                                                          *)
WallsPlacedByDirection(placed) ==
    /\ ~Failed(placed)
    /\ \A i \in 1..Len(inp.bldg.walls) : ~Failed(WallAzimuth(inp.bldg.walls[i]))

(* C20: a wall whose nearest azimuth lies between two sides is placed on   *)
(* both neighbouring sides (azimuth + 45 and azimuth - 45, modulo 360),    *)
(* each copy with half of the wall's area and with its assembly code and   *)
(* id; a wall whose nearest azimuth is that of a side goes to that side    *)
(* alone with its full area.                                               *)
C20_WallBetweenSidesSplit ==
    pc = "done" =>
       LET placed == InputWallsBySide
           sm == sidemap(inp.bldg.house_azimuth)
       IN WallsPlacedByDirection(placed) =>
             \A i \in 1..Len(inp.bldg.walls) :
                LET wall == inp.bldg.walls[i]
                    az == WallAzimuth(wall).val
                IN \A side \in Sides :
                      LET entries == EntriesOf(placed.val, wall, side)
                      IN IF side \in SidesOfAzimuth(az, sm)
                         THEN /\ Len(entries) = 1
                              /\ entries[1].assembly_code = get_wall_assembly_code(wall).val
                              /\ ~IsNone(wall.area) =>
                                    entries[1].area =
                                       Some(IF az \in DOMAIN sm THEN 2 * Val(wall.area)
                                            ELSE Val(wall.area))
                         ELSE Len(entries) = 0

(* a brick wall of area 3 across the front right corner of a house with a  *)
(* wood frame wall of area 1 on each side: a half of it is on the front    *)
(* and a half on the right, and both sides come out as brick               *)
C20_Witness ==
    /\ pc = "done" /\ out.err = "ok"
    /\ Len(inp.bldg.walls) = 5
    /\ inp.bldg.house_azimuth = 0
    /\ inp.bldg.walls[5].id = "wall5"
    /\ inp.bldg.walls[5].azimuth = Some(45)
    /\ inp.bldg.walls[5].area = Some(MaxArea)
    /\ LET placed == InputWallsBySide
       IN /\ WallsPlacedByDirection(placed)
          /\ Len(EntriesOf(placed.val, inp.bldg.walls[5], "front")) = 1
          /\ EntriesOf(placed.val, inp.bldg.walls[5], "front")[1].area = Some(MaxArea)
          /\ Len(EntriesOf(placed.val, inp.bldg.walls[5], "right")) = 1
          /\ Len(EntriesOf(placed.val, inp.bldg.walls[5], "back")) = 0
    /\ SubSeq(ZoneWallOf(out.val.zone_wall, "front").wall_assembly_code, 3, 4) = <<"b", "r">>
    /\ SubSeq(ZoneWallOf(out.val.zone_wall, "right").wall_assembly_code, 3, 4) = <<"b", "r">>
    /\ SubSeq(ZoneWallOf(out.val.zone_wall, "back").wall_assembly_code, 3, 4) = <<"w", "f">>

(* a lone wall of azimuth 315 on a house that faces north: on the left     *)
(* and, by 315 + 45 = 360 reduced to 0, on the front                       *)
C20_WitnessWrapAround ==
    /\ pc = "done"
    /\ inp.bldg.house_azimuth = 0
    /\ Len(inp.bldg.walls) = 1
    /\ inp.bldg.walls[1].azimuth = Some(315)
    /\ LET placed == InputWallsBySide
       IN /\ WallsPlacedByDirection(placed)
          /\ Len(EntriesOf(placed.val, inp.bldg.walls[1], "front")) = 1
          /\ Len(EntriesOf(placed.val, inp.bldg.walls[1], "left")) = 1


(***************************************************************************)
(* Several walls on one side                                               *)
(***************************************************************************)

(* the total area of the walls of a side whose code holds the characters   *)
(* of k at positions from..to                                              *)
SideAreaOf(walls, from, to, k) ==
    SeqSum([i \in 1..Len(walls) |->
              IF SubSeq(walls[i].assembly_code, from, to) = CodeChars[k]
              THEN Val(walls[i].area) ELSE 0])

(* the effective R-value of a code is tabulated                            *)
CodeIsTabulated(code) ==
    LET c == CodeOfChars(SubSeq(code, 3, 4))
        e == CodeOfChars(SubSeq(code, 7, 8))
    IN /\ e \in DOMAIN wall_eff_rvalues[c]
       /\ IntOfDigits(SubSeq(code, 5, 6)) \in DOMAIN wall_eff_rvalues[c][e]

(* the effective R-value of a tabulated code, in tenths                    *)
EffectiveOfCode(code) ==
    wall_eff_rvalues[CodeOfChars(SubSeq(code, 3, 4))][CodeOfChars(SubSeq(code, 7, 8))]
                    [IntOfDigits(SubSeq(code, 5, 6))]

(* a side holds several walls, all with a positive area and with a code    *)
(* whose effective R-value is tabulated                                    *)
SeveralWalls(walls) ==
    /\ Len(walls) > 1
    /\ \A i \in 1..Len(walls) :
          /\ ~IsNone(walls[i].area)
          /\ Val(walls[i].area) > 0
          /\ CodeIsTabulated(walls[i].assembly_code)

(* the effective R-value of a table at nominal 0, read off its lowest key  *)
(* when it has no key 0                                                    *)
TableOffset(table) ==
    IF 0 \in DOMAIN table THEN table[0]
    ELSE LET lowest == CHOOSE r \in DOMAIN table : \A q \in DOMAIN table : r <= q
         IN table[lowest] - 10 * lowest

(* code is a catalog code made of the construction type of the greatest    *)
(* total area, the siding of the greatest total area and the key of their  *)
(* table nearest to the area-weighted mean of the walls' effective         *)
(* R-values less the table's offset                                        *)
CombinedAsClaimed(walls, code) ==
    LET c == CodeOfChars(SubSeq(code, 3, 4))
        e == CodeOfChars(SubSeq(code, 7, 8))
        r == IntOfDigits(SubSeq(code, 5, 6))
        total == SeqSum([i \in 1..Len(walls) |-> Val(walls[i].area)])
        weighted == SeqSum([i \in 1..Len(walls) |->
                       Val(walls[i].area) * EffectiveOfCode(walls[i].assembly_code)])
    IN /\ \A k \in SeqToSet(wall_const_types) :
             SideAreaOf(walls, 3, 4, c) >= SideAreaOf(walls, 3, 4, k)
       /\ \A k \in SeqToSet(wall_ext_finish_types) :
             SideAreaOf(walls, 7, 8, e) >= SideAreaOf(walls, 7, 8, k)
       /\ e \in DOMAIN wall_eff_rvalues[c]
       /\ r \in DOMAIN wall_eff_rvalues[c][e]
       /\ LET table == wall_eff_rvalues[c][e]
              nominal == weighted - TableOffset(table) * total
          IN \A j \in DOMAIN table :
                Abs(nominal - 10 * r * total) <= Abs(nominal - 10 * j * total)

(* the building has no window and some side holds several walls            *)
SidesWithSeveralWalls(placed) ==
    IF Failed(placed) \/ Len(inp.bldg.windows) > 0 THEN {}
    ELSE {side \in Sides : SeveralWalls(placed.val[side])}

(* every other side holds one wall that translates alone                   *)
OtherSidesTranslate(placed) ==
    \A side \in Sides \ SidesWithSeveralWalls(placed) :
       /\ Len(placed.val[side]) = 1
       /\ placed.val[side][1].area # Some(0)
       /\ CodeIsTabulated(placed.val[side][1].assembly_code)

(* C21: for a wall side holding several walls the translation yields a     *)
(* catalog code, for every mix of construction types and sidings on the    *)
(* side: its construction type and its siding are those of the greatest    *)
(* total area on the side and its nominal R-value is the key of their      *)
(* effective-R table nearest to the area-weighted mean of the walls'       *)
(* effective R-values less the table's offset.                             *)
C21_CombinedWallCode ==
    pc = "done" =>
       LET placed == InputWallsBySide
           several == SidesWithSeveralWalls(placed)
       IN (several # {} /\ OtherSidesTranslate(placed))
          => /\ out.err = "ok"
             /\ \A side \in several :
                   CombinedAsClaimed(placed.val[side],
                                     ZoneWallOf(out.val.zone_wall, side).wall_assembly_code)

(* the part of C21 the code keeps: the code of the side is as stated       *)
(* whenever the translation returns                                        *)
C21_CombinedWhenReturned ==
    (pc = "done" /\ out.err = "ok") =>
       LET placed == InputWallsBySide
       IN \A side \in SidesWithSeveralWalls(placed) :
             CombinedAsClaimed(placed.val[side],
                               ZoneWallOf(out.val.zone_wall, side).wall_assembly_code)

(* two wood frame walls of area 2, with wood and with vinyl siding, beside *)
(* a brick wall of area 3 on the front: wood frame has the greatest area   *)
(* of the construction types, no siding the greatest of the sidings, and   *)
(* the translation ends with a KeyError                                    *)
C21_KeyErrorOnMix ==
    /\ pc = "done"
    /\ out.err = "KeyError"
    /\ LET placed == InputWallsBySide
       IN /\ SidesWithSeveralWalls(placed) = {"front"}
          /\ OtherSidesTranslate(placed)
          /\ LET walls == placed.val["front"]
             IN /\ Len(walls) = 3
                /\ SideAreaOf(walls, 3, 4, "wf") > SideAreaOf(walls, 3, 4, "br")
                /\ SideAreaOf(walls, 3, 4, "br") > 0
                /\ SideAreaOf(walls, 3, 4, "wf") + SideAreaOf(walls, 3, 4, "br")
                     = SeqSum([i \in 1..3 |-> Val(walls[i].area)])
                /\ \A k \in {"wo", "st", "vi", "al", "br"} :
                      SideAreaOf(walls, 7, 8, "nn") > SideAreaOf(walls, 7, 8, k)

(* a wood frame wall of area 1 with R-11 beside a brick wall of area 3     *)
(* with R-5 on the front: the side comes out as brick                      *)
C21_WitnessBrickDominant ==
    /\ pc = "done"
    /\ out.err = "ok"
    /\ LET placed == InputWallsBySide
       IN /\ SidesWithSeveralWalls(placed) = {"front"}
          /\ LET walls == placed.val["front"]
             IN /\ Len(walls) = 2
                /\ SideAreaOf(walls, 3, 4, "br") > SideAreaOf(walls, 3, 4, "wf")
                /\ SideAreaOf(walls, 3, 4, "wf") > 0
          /\ SubSeq(ZoneWallOf(out.val.zone_wall, "front").wall_assembly_code, 3, 4)
                = <<"b", "r">>

(***************************************************************************)
(* Roof zones of one, two and more attics                                  *)
(***************************************************************************)

(* the records of the attics of the input, when every attic has one        *)
InputAtticds ==
    [i \in 1..Len(inp.attics) |->
        AtticRecord(inp.attics[i], inp.attics, inp.roofs, inp.footprint_area, inp.tie).val]

(* the roof area of the attics of a group whose attic_key is v             *)
RoofAreaOf(group, attic_key, v) ==
    SeqSum([i \in 1..Len(group) |-> IF group[i][attic_key] = v THEN group[i].roof_area ELSE 0])

(* v is a value of attic_key in the group and none has a greater area      *)
HasGreatestRoofArea(group, attic_key, v) ==
    /\ \E i \in 1..Len(group) : group[i][attic_key] = v
    /\ \A i \in 1..Len(group) :
          RoofAreaOf(group, attic_key, v) >= RoofAreaOf(group, attic_key, group[i][attic_key])

(* the zone is the attic on its own                                        *)
ZoneIsOwnAttic(zone, atticd) ==
    /\ zone.roof_area = atticd.roof_area
    /\ zone.roof_type = atticd.rooftype
    /\ zone.roof_color = atticd.roofcolor
    /\ zone.roofids = {atticd.roofid}
    /\ \E r \in DOMAIN roof_center_of_cavity_rvalues[atticd.roofconstype][atticd.extfinish] :
          zone.roof_assembly_code =
             "rf" \o atticd.roofconstype \o TwoDigits(r) \o atticd.extfinish

(* the zone combines the attics of the group as stated                     *)
ZoneCombinesGroup(zone, group) ==
    LET total == SeqSum([i \in 1..Len(group) |-> group[i].roof_area])
        weighted == SeqSum([i \in 1..Len(group) |->
                              group[i].roof_coc_rvalue * group[i].roof_area])
    IN /\ zone.roof_area = total
       /\ HasGreatestRoofArea(group, "roofcolor", zone.roof_color)
       /\ \E ct \in DOMAIN roof_center_of_cavity_rvalues :
             \E ef \in DOMAIN roof_center_of_cavity_rvalues[ct] :
                LET table == roof_center_of_cavity_rvalues[ct][ef]
                    nominal == weighted - table[0] * total
                IN /\ HasGreatestRoofArea(group, "roofconstype", ct)
                   /\ HasGreatestRoofArea(group, "extfinish", ef)
                   /\ \E r \in DOMAIN table :
                         /\ zone.roof_assembly_code = "rf" \o ct \o TwoDigits(r) \o ef
                         /\ \A j \in DOMAIN table :
                               Abs(nominal - 10 * r * total) <= Abs(nominal - 10 * j * total)

(* C22: with one or two attics each attic becomes its own roof zone; with  *)
(* more than two attics the attics are grouped by roof type, each group    *)
(* yielding one zone whose roof_area is the sum of its members' areas,     *)
(* whose construction type, exterior finish and colour are each the value  *)
(* with the greatest total area within the group, and whose roof R-value   *)
(* is the catalog key nearest to the area-weighted mean of the members'    *)
(* centre-of-cavity R-values minus the offset of the dominant              *)
(* (construction type, finish) table; only the two zones of greatest       *)
(* combined area are kept.                                                 *)
C22_RoofZones ==
    (pc = "done" /\ out.err = "ok") =>
       LET atticds == InputAtticds
           n == Len(atticds)
           GroupOf(t) == SelectSeq(atticds, LAMBDA a : a.rooftype = t)
           types == {atticds[i].rooftype : i \in 1..n}
           kept == {out.val[z].roof_type : z \in 1..Len(out.val)}
       IN IF n <= 2
          THEN /\ Len(out.val) = n
               /\ \E p \in [1..n -> 1..n] :
                     /\ \A i, j \in 1..n : p[i] = p[j] => i = j
                     /\ \A i \in 1..n : ZoneIsOwnAttic(out.val[p[i]], atticds[i])
          ELSE /\ Len(out.val) = (IF Cardinality(types) < 2 THEN Cardinality(types) ELSE 2)
               /\ Cardinality(kept) = Len(out.val)
               /\ kept \subseteq types
               /\ \A z \in 1..Len(out.val) :
                     ZoneCombinesGroup(out.val[z], GroupOf(out.val[z].roof_type))
               /\ \A t \in types \ kept : \A z \in 1..Len(out.val) :
                     out.val[z].roof_area >= RoofAreaOf(atticds, "rooftype", t)

(* three attics: a vented attic of area 1 on the shingle roof and one of   *)
(* area 2 on the second roof make one zone of area 3 with the colour and   *)
(* the finish of the second roof, beside the zone of a cathedral ceiling   *)
C22_Witness ==
    /\ pc = "done"
    /\ out.err = "ok"
    /\ Len(inp.attics) = 3
    /\ Len(out.val) = 2
    /\ LET atticds == InputAtticds
       IN /\ atticds[1].rooftype = "vented_attic" /\ atticds[1].roofid = "roof1"
          /\ atticds[1].roof_area = 1
          /\ atticds[2].rooftype = "vented_attic" /\ atticds[2].roofid = "roof2"
          /\ atticds[2].roof_area = 2
          /\ atticds[3].rooftype = "cath_ceiling"
          /\ atticds[3].roof_area > 0
          /\ out.val[1].roof_type = "vented_attic"
          /\ out.val[1].roof_area = 3
          /\ out.val[1].roof_color = atticds[2].roofcolor
          /\ out.val[1].roof_color # atticds[1].roofcolor
          /\ out.val[1].roofids = {"roof1", "roof2"}

(* four attics in two groups of two                                        *)
C22_WitnessFourAttics ==
    /\ pc = "done"
    /\ out.err = "ok"
    /\ Len(inp.attics) = 4
    /\ Len(out.val) = 2
    /\ LET atticds == InputAtticds
       IN /\ Cardinality({i \in 1..4 : atticds[i].rooftype = "vented_attic"}) = 2
          /\ \A i \in 1..4 : atticds[i].roof_area > 0
          /\ out.val[1].roofids = {"roof1", "roof2"}
          /\ out.val[2].roofids = {"roof1", "roof2"}

(* two attics of one roof type on two roofs: two zones                     *)
C22_WitnessTwoAttics ==
    /\ pc = "done"
    /\ out.err = "ok"
    /\ Len(inp.attics) = 2
    /\ Len(out.val) = 2
    /\ out.val[1].roof_type = out.val[2].roof_type
    /\ out.val[1].roofids # out.val[2].roofids

(***************************************************************************)
(* The group of the greatest capacity                                      *)
(***************************************************************************)

(* the summed capacity of the systems of members                           *)
CapacityOf(systems, members) ==
    SeqSum([i \in 1..Len(systems) |->
              IF i \in members THEN Val(systems[i].capacity) ELSE 0])

(* y is a whole year nearest to the capacity-weighted mean of the years of *)
(* systems[i], i in members                                                *)
IsRoundedWeightedYear(y, systems, members) ==
    LET C == CapacityOf(systems, members)
        S == SeqSum([i \in 1..Len(systems) |->
                       IF i \in members THEN systems[i].year * Val(systems[i].capacity)
                       ELSE 0])
    IN 2 * Abs(y * C - S) <= C

(* rec is the record of the group of systems[i] among the groups by        *)
(* GroupKey: its type, its method and its combined efficiency (a multiple  *)
(* of unit hundredths) or its year, not before minyear                     *)
IsRecordOfGroup(rec, systems, i, SameGroup(_, _), unit, minyear) ==
    LET members == {j \in 1..Len(systems) : SameGroup(systems[i], systems[j])}
    IN /\ rec.type = systems[i].type
       /\ rec.efficiency_method = systems[i].efficiency_method
       /\ IF rec.efficiency_method = "user"
          THEN IsRoundedWeightedMean(rec.efficiency, systems, members, unit)
          ELSE \E y \in 1900..2100 :
                  /\ IsRoundedWeightedYear(y, systems, members)
                  /\ rec.year = (IF y < minyear THEN minyear ELSE y)

(* no group of systems has a greater summed capacity than that of          *)
(* systems[i]                                                              *)
IsGreatestGroup(systems, i, SameGroup(_, _)) ==
    \A k \in 1..Len(systems) :
        CapacityOf(systems, {j \in 1..Len(systems) : SameGroup(systems[i], systems[j])})
          >= CapacityOf(systems, {j \in 1..Len(systems) : SameGroup(systems[k], systems[j])})

SameHeatingGroup(a, b) ==
    /\ a.type = b.type
    /\ a.fuel_primary = b.fuel_primary
    /\ a.efficiency_method = b.efficiency_method

SameCoolingGroup(a, b) ==
    /\ a.type = b.type
    /\ a.efficiency_method = b.efficiency_method

C23_WitnessCooling ==
    /\ pc = "done"
    /\ IsNone(inp.primaryCooling)
    /\ Len(inp.plant) = 2
    /\ inp.plant[1].ctype = Some("central air conditioning")
    /\ inp.plant[1].ccap = Some(30000)
    /\ inp.plant[2].ctype = Some("room air conditioner")
    /\ out.cooling.err = "ok"
    /\ out.cooling.val.type = "packaged_dx"
    /\ out.cooling.val.year = 1970
    /\ out.heating.err = "ok"
    /\ out.heating.val.type = "none"

(***************************************************************************)
(* Efficiency or year of a single unit                                     *)
(***************************************************************************)

(* the plant is one heating unit whose type asks for an efficiency         *)
OneHeatingUnit ==
    /\ Len(inp.plant) = 1
    /\ IsHeatingUnit(inp.plant[1])
    /\ LET tf == HeatingTypeAndFuel(inp.plant[1])
       IN /\ ~Failed(tf)
          /\ tf.val.type \in DOMAIN heating_eff_units
          /\ ~(tf.val.type \in {"furnace", "baseboard"} /\ tf.val.fuel_primary = "electric")

(* the plant is one cooling unit of a known type                           *)
OneCoolingUnit ==
    /\ Len(inp.plant) = 1
    /\ IsCoolingUnit(inp.plant[1])
    /\ inp.plant[1].tag = "CoolingSystem" =>
          /\ ~IsNone(inp.plant[1].ctype)
          /\ Val(inp.plant[1].ctype) \in DOMAIN cooling_type_map
    /\ inp.plant[1].tag = "HeatPump" =>
          \/ IsNone(inp.plant[1].hptype)
          \/ Val(inp.plant[1].hptype) \in DOMAIN heat_pump_type_map

(* the efficiency values of the unit in the unit of measure of its type    *)
HeatingEfficiencies(u) ==
    EffValues(u.heff, heating_eff_units[HeatingTypeAndFuel(u).val.type])

CoolingEfficiencies(u) ==
    LET type == IF u.tag = "HeatPump"
                THEN IF IsNone(u.hptype) THEN "heat_pump" ELSE heat_pump_type_map[Val(u.hptype)]
                ELSE cooling_type_map[Val(u.ctype)]
    IN IF IsNone(cooling_eff_units[type]) THEN <<>>
       ELSE EffValues(u.ceff, Val(cooling_eff_units[type]))

(* the result is that of a unit with the efficiencies eff_els and the      *)
(* year: method user with the efficiency, else shipment_weighted with the  *)
(* year, not before 1970, else failure as failure says                     *)
ResolvedAsClaimed(res, eff_els, year, IsFailure(_)) ==
    IF Len(eff_els) > 0
    THEN /\ res.err = "ok"
         /\ res.val.efficiency_method = "user"
         /\ res.val.efficiency = eff_els[1]
    ELSE IF ~IsNone(year)
    THEN /\ res.err = "ok"
         /\ res.val.efficiency_method = "shipment_weighted"
         /\ res.val.year = (IF Val(year) < 1970 THEN 1970 ELSE Val(year))
    ELSE IsFailure(res)

(* C24: a heating or cooling unit with an efficiency value in the unit     *)
(* required by its type uses method 'user' with that value; otherwise it   *)
(* uses method 'shipment_weighted' with its installation/model year, the   *)
(* output year being clamped up to 1970; a unit that has neither a         *)
(* matching efficiency nor a year fails with a translation error.          *)
C24_EfficiencyResolution ==
    pc = "done" =>
      /\ OneHeatingUnit =>
            ResolvedAsClaimed(out.heating, HeatingEfficiencies(inp.plant[1]),
                              inp.plant[1].year, LAMBDA r : r.err = "TranslationError")
      /\ OneCoolingUnit =>
            ResolvedAsClaimed(out.cooling, CoolingEfficiencies(inp.plant[1]),
                              inp.plant[1].year, LAMBDA r : r.err = "TranslationError")

(* the part of C24 the code keeps: the same, a unit with neither failing   *)
(* with some exception                                                     *)
C24_ResolutionOrSomeFailure ==
    pc = "done" =>
      /\ OneHeatingUnit =>
            ResolvedAsClaimed(out.heating, HeatingEfficiencies(inp.plant[1]),
                              inp.plant[1].year, Failed)
      /\ OneCoolingUnit =>
            ResolvedAsClaimed(out.cooling, CoolingEfficiencies(inp.plant[1]),
                              inp.plant[1].year, Failed)

(* a gas furnace without AFUE and without year: IndexError                 *)
C24_IndexErrorWithoutYear ==
    /\ pc = "done"
    /\ OneHeatingUnit
    /\ inp.plant[1].htype = "Furnace"
    /\ Len(HeatingEfficiencies(inp.plant[1])) = 0
    /\ IsNone(inp.plant[1].year)
    /\ out.heating.err = "IndexError"

(* a central air conditioner without SEER and without year: IndexError     *)
C24_IndexErrorCooling ==
    /\ pc = "done"
    /\ OneCoolingUnit
    /\ inp.plant[1].tag = "CoolingSystem"
    /\ Len(CoolingEfficiencies(inp.plant[1])) = 0
    /\ IsNone(inp.plant[1].year)
    /\ out.cooling.err = "IndexError"

(* a boiler of 1965 comes out with the year 1970                           *)
C24_WitnessClamped ==
    /\ pc = "done"
    /\ OneHeatingUnit
    /\ inp.plant[1].year = Some(1965)
    /\ out.heating.err = "ok"
    /\ out.heating.val.efficiency_method = "shipment_weighted"
    /\ out.heating.val.year = 1970

(***************************************************************************)
(* The cavity R-value of a WoodStud wall                                   *)
(***************************************************************************)

(* the sum of the R-values of the layers that are not continuous           *)
NonContinuousLayersR(layers) ==
    SeqSum([i \in 1..Len(layers) |-> IF layers[i].continuous THEN 0 ELSE Val(layers[i].r)])

(* a WoodStud wall has been given a code                                   *)
WoodStudCoded ==
    /\ pc = "done"
    /\ inp.hpxmlwall.wtype = "WoodStud"
    /\ out.err = "ok"

(* the catalog of nominal R-values of the subtype of a code                *)
CatalogOfCode(code) ==
    IF SubSeq(code, 3, 4) = <<"o", "v">> THEN {19, 21, 27, 33, 38}
    ELSE {0, 3, 7, 11, 13, 15, 19, 21}

(* C25: for a WoodStud wall the cavity R-value used for the assembly code  *)
(* is the sum of the nominal R-values of exactly the non-continuous        *)
(* insulation layers: every continuous layer is left out of the sum,       *)
(* whether or not its material is rigid, and every non-continuous layer is *)
(* included.                                                               *)
C25_ContinuousLayersLeftOut ==
    WoodStudCoded =>
       IsNearestOf(IntOfDigits(SubSeq(out.val, 5, 6)),
                   NonContinuousLayersR(inp.hpxmlwall.layers), CatalogOfCode(out.val))

(* C25 as amended: for a WoodStud wall the cavity R-value used for the     *)
(* assembly code is the sum of the nominal R-values of exactly the layers  *)
(* that are not both rigid and continuous: a continuous layer is left out  *)
(* only when its material is rigid, and every other layer is included.     *)
C25_RigidContinuousLayersLeftOut ==
    WoodStudCoded =>
       IsNearestOf(IntOfDigits(SubSeq(out.val, 5, 6)),
                   CavityLayersR(inp.hpxmlwall.layers), CatalogOfCode(out.val))

(* a wood frame wall with one continuous layer of R-13 that is not rigid   *)
(* has been given R 13                                                     *)
C25_Witness ==
    /\ WoodStudCoded
    /\ inp.hpxmlwall.layers = <<Layer(FALSE, TRUE, Some(13))>>
    /\ SubSeq(out.val, 3, 6) = <<"w", "f", "1", "3">>

(* R-19 in the cavity under a rigid continuous layer of R-5: R 19          *)
C25_WitnessRigid ==
    /\ WoodStudCoded
    /\ inp.hpxmlwall.layers = <<Layer(TRUE, TRUE, Some(5)), Layer(FALSE, FALSE, Some(19))>>
    /\ SubSeq(out.val, 3, 6) = <<"p", "s", "1", "9">>

(***************************************************************************)
(* The nearest bin of an azimuth                                           *)
(***************************************************************************)

AzimuthBins == {0, 45, 90, 135, 180, 225, 270, 315}

(* divide by 45, round half up, modulo 8, multiply by 45, of an azimuth in *)
(* half degrees                                                            *)
RoundHalfUpBin(h) == (((h + 45) \div 90) % 8) * 45

(* the distance around the circle, in half degrees, between an azimuth in  *)
(* half degrees and a bin in degrees                                       *)
CircularDistance(h, bin) ==
    LET d == (h - 2 * bin) % 720
    IN IF d <= 360 THEN d ELSE 720 - d

(* the result is the bin of the azimuth as stated                          *)
IsBinAsClaimed(res, h) ==
    /\ res.err = "ok"
    /\ res.val \in AzimuthBins
    /\ \A bin \in AzimuthBins : CircularDistance(h, res.val) <= CircularDistance(h, bin)
    /\ res.val = RoundHalfUpBin(h)

(* C26: get_nearest_azimuth given an azimuth returns a value of 0, 45, 90, *)
(* 135, 180, 225, 270, 315: the bin nearest to the azimuth reduced modulo  *)
(* 360, an azimuth exactly halfway between two bins going to the higher    *)
(* bin (divide by 45, round half up, modulo 8, multiply by 45); the        *)
(* azimuth is used even when a named orientation is also given, and with   *)
(* neither azimuth nor orientation it raises TranslationError.             *)
C26_NearestBin ==
    pc = "done" =>
       IF ~IsNone(inp.azimuth) THEN IsBinAsClaimed(out.first, Val(inp.azimuth))
       ELSE IsNone(inp.orientation) => out.first.err = "TranslationError"

(* the part of C26 the code keeps: the same for every azimuth but the      *)
(* negative ones halfway between two bins                                  *)
C26_NearestBinButNegativeHalves ==
    pc = "done" =>
       IF ~IsNone(inp.azimuth)
       THEN (Val(inp.azimuth) >= 0 \/ Val(inp.azimuth) % 90 # 45)
               => IsBinAsClaimed(out.first, Val(inp.azimuth))
       ELSE IsNone(inp.orientation) => out.first.err = "TranslationError"

(* the azimuth -22.5 with the orientation east: 315, not 0                 *)
C26_LowerBinAtMinus22 ==
    /\ pc = "done"
    /\ inp.azimuth = Some(-45)
    /\ inp.orientation = Some("east")
    /\ out.first = Ok(315)
    /\ RoundHalfUpBin(-45) = 0

(* the azimuth 337.5 with the orientation east: 0                          *)
C26_HigherBinAt337 ==
    /\ pc = "done"
    /\ inp.azimuth = Some(675)
    /\ inp.orientation = Some("east")
    /\ out.first = Ok(0)

(***************************************************************************)
(* The NREL assumptions: apply_nrel_assumptions, then _get_building_about. *)
(* An element is [tag, text]; the Site element and a Wall element are the  *)
(* sequences of their children.  A window is [azimuth, orientation, area], *)
(* the azimuth in whole degrees.                                           *)
(***************************************************************************)

(* the names of the children of Site and of Wall that BaseElements.xsd of  *)
(* HPXML 2.1 declares by name, in the order of the schema; the extension   *)
(* element is declared by reference and is not among them                  *)
site_element_order ==
    <<"SiteType", "Surroundings", "VerticalSurroundings", "ShieldingofHome",
      "OrientationOfFrontOfHome", "AzimuthOfFrontOfHome", "FuelTypesAvailable">>

wall_element_order ==
    <<"SystemIdentifier", "ExteriorAdjacentTo", "WallType", "Thickness", "Area",
      "Orientation", "Azimuth", "Studs", "Siding", "Color", "Insulation">>

Element(tag, text) == [tag |-> tag, text |-> text]

(* str() of a whole number of degrees, and float() of such a text          *)
DecimalText ==
    (0 :> "0") @@ (45 :> "45") @@ (90 :> "90") @@ (100 :> "100") @@ (135 :> "135") @@
    (180 :> "180") @@ (225 :> "225") @@ (270 :> "270") @@ (315 :> "315")

str(n) == DecimalText[n]

float(text) == CHOOSE n \in DOMAIN DecimalText : DecimalText[n] = text

(* the text of the first child of parent with the tag, if any              *)
TextOfChild(parent, tag) ==
    LET found == {i \in 1..Len(parent) : parent[i].tag = tag}
    IN IF found = {} THEN None
       ELSE Some(parent[CHOOSE i \in found : \A j \in found : i <= j].text)

InsertAt(parent, i, child) ==
    SubSeq(parent, 1, i - 1) \o <<child>> \o SubSeq(parent, i, Len(parent))

(* the child appended to the parent after the loop found no place for it   *)
insert_element_in_order_Appending(parent, child, elorder) ==
    LET childidx == IndexOf(elorder, child.tag)
        after == {i \in 1..Len(parent) :
                     /\ parent[i].tag \in SeqToSet(elorder)
                     /\ IndexOf(elorder, parent[i].tag) > childidx}
    IN IF after = {} THEN Append(parent, child)
       ELSE InsertAt(parent, CHOOSE i \in after : \A j \in after : i <= j, child)

(* the children of parent after insert_element_in_order: child is appended *)
(* to a parent without children, else put before the first child that      *)
(* follows it in elorder; children that are not in elorder are passed over *)
insert_element_in_order(parent, child, elorder) ==
    LET childidx == IndexOf(elorder, child.tag)
        after == {i \in 1..Len(parent) :
                     /\ parent[i].tag \in SeqToSet(elorder)
                     /\ IndexOf(elorder, parent[i].tag) > childidx}
    IN IF Len(parent) = 0 THEN <<child>>
       ELSE IF after = {} THEN parent
       ELSE InsertAt(parent, CHOOSE i \in after : \A j \in after : i <= j, child)

(* the bins of the windows, or the first exception of the loop over        *)
(* xpath(b, '.../Window'): None without a window, the Window element       *)
(* itself, whose children are then iterated, with one window               *)
WindowBins(windows) ==
    LET bin == [i \in 1..Len(windows) |->
                  get_nearest_azimuth(IF IsNone(windows[i].azimuth) THEN None
                                      ELSE Some(2 * Val(windows[i].azimuth)),
                                      windows[i].orientation)]
        failing == {i \in 1..Len(windows) : Failed(bin[i]) \/ IsNone(windows[i].area)}
    IN IF Len(windows) = 0
       THEN Raise("TypeError", "'NoneType' object is not iterable")
       ELSE IF Len(windows) = 1
       THEN Raise("TranslationError", "Either an orientation or azimuth is required.")
       ELSE IF failing # {}
       THEN LET i == CHOOSE j \in failing : \A k \in failing : j <= k
            IN IF Failed(bin[i]) THEN bin[i]
               ELSE Raise("TypeError", "float() argument must be a string or a number")
       ELSE Ok([i \in 1..Len(windows) |-> bin[i].val])

(* the front azimuth assumed: opposite to the bin of the greatest window   *)
(* area                                                                    *)
AssumedFrontAzimuth(windows, bins, tie) ==
    LET present == SelectSeq(<<0, 45, 90, 135, 180, 225, 270, 315>>,
                             LAMBDA a : \E i \in 1..Len(bins) : bins[i] = a)
        window_areas == [a \in SeqToSet(present) |->
                            SeqSum([i \in 1..Len(bins) |->
                                      IF bins[i] = a THEN Val(windows[i].area) ELSE 0])]
        back_azimuth == MaxAreaKey(present, window_areas, tie)
    IN (back_azimuth + 180) % 360

(* the building after apply_nrel_assumptions, or the exception             *)
apply_nrel_assumptions(doc, tie) ==
    LET site == IF IsNone(doc.site) THEN <<>> ELSE Val(doc.site)
        no_front == /\ IsNone(TextOfChild(site, "AzimuthOfFrontOfHome"))
                    /\ IsNone(TextOfChild(site, "OrientationOfFrontOfHome"))
        bins == WindowBins(doc.windows)
        no_siding == \A i \in 1..Len(doc.walls) : IsNone(TextOfChild(doc.walls[i], "Siding"))
        walls == IF no_siding
                 THEN [i \in 1..Len(doc.walls) |->
                         insert_element_in_order(doc.walls[i], Element("Siding", "stucco"),
                                                 wall_element_order)]
                 ELSE doc.walls
    IN IF no_front /\ Failed(bins) THEN bins
       ELSE Ok([site |-> Some(IF no_front
                              THEN insert_element_in_order(
                                      site,
                                      Element("AzimuthOfFrontOfHome",
                                              str(AssumedFrontAzimuth(doc.windows, bins.val, tie))),
                                      site_element_order)
                              ELSE site),
                windows |-> doc.windows,
                walls |-> walls])

(* the BuildingSummary of the usual building with the front of the Site    *)
SummaryOfSite(site) ==
    LET children == IF IsNone(site) THEN <<>> ELSE Val(site)
        azimuth == TextOfChild(children, "AzimuthOfFrontOfHome")
    IN [UsualSummary EXCEPT
          !.azimuth = IF IsNone(azimuth) THEN None ELSE Some(2 * float(Val(azimuth))),
          !.orientation = TextOfChild(children, "OrientationOfFrontOfHome")]

MaxWindows == 3

SiteChoices ==
    {None}
    \cup {Some(SelectSeq(<<Element("Surroundings", "stand-alone"),
                           Element("OrientationOfFrontOfHome", "east"),
                           Element("AzimuthOfFrontOfHome", "100"),
                           Element("FuelTypesAvailable", ""),
                           Element("extension", "")>>,
                         LAMBDA el : el.tag \in tags)) :
            tags \in SUBSET {"Surroundings", "OrientationOfFrontOfHome",
                             "AzimuthOfFrontOfHome", "FuelTypesAvailable", "extension"}}

AssumedWindowSamples ==
    {[azimuth |-> Some(0), orientation |-> None, area |-> Some(10)],
     [azimuth |-> Some(100), orientation |-> Some("south"), area |-> Some(8)],
     [azimuth |-> None, orientation |-> Some("west"), area |-> Some(10)],
     [azimuth |-> Some(270), orientation |-> None, area |-> Some(4)],
     [azimuth |-> None, orientation |-> None, area |-> Some(6)],
     [azimuth |-> Some(180), orientation |-> None, area |-> None]}

AssumedWallChoices ==
    {<<>>,
     << <<Element("SystemIdentifier", "wall1"), Element("WallType", "WoodStud")>> >>,
     << <<Element("SystemIdentifier", "wall1"), Element("Siding", "vinyl siding")>>,
        <<Element("SystemIdentifier", "wall2"), Element("Insulation", "")>> >>,
     << <<Element("SystemIdentifier", "wall1"), Element("Insulation", "")>> >>}

AssumptionInputs(tie) ==
    {[doc |-> [site |-> site, windows |-> windows, walls |-> walls],
      nrel_assumptions |-> flag, tie |-> tie] :
        site \in SiteChoices, windows \in SeqsUpTo(AssumedWindowSamples, MaxWindows),
        walls \in AssumedWallChoices, flag \in BOOLEAN}

InitAssumptions ==
    /\ pc = "assumptions"
    /\ \E tie \in TiePolicies : inp \in AssumptionInputs(tie)
    /\ out = [doc |-> NoOut, about |-> NoOut]

ApplyNrelAssumptions ==
    /\ pc = "assumptions"
    /\ out' = [out EXCEPT !.doc = IF inp.nrel_assumptions
                                  THEN apply_nrel_assumptions(inp.doc, inp.tie)
                                  ELSE Ok(inp.doc)]
    /\ pc' = "about"
    /\ UNCHANGED inp

GetBuildingAbout ==
    /\ pc = "about"
    /\ out' = [out EXCEPT !.about = IF Failed(out.doc) THEN out.doc
                                    ELSE get_building_about(SummaryOfSite(out.doc.val.site),
                                                            Today)]
    /\ pc' = "done"
    /\ UNCHANGED inp

NextAssumptions == ApplyNrelAssumptions \/ GetBuildingAbout

SpecAssumptions == InitAssumptions /\ [][NextAssumptions]_vars

(* the flag is set, the source gives no front and has windows that can be  *)
(* binned and added up                                                     *)
FrontIsToBeAssumed ==
    /\ inp.nrel_assumptions
    /\ LET site == IF IsNone(inp.doc.site) THEN <<>> ELSE Val(inp.doc.site)
       IN /\ IsNone(TextOfChild(site, "AzimuthOfFrontOfHome"))
          /\ IsNone(TextOfChild(site, "OrientationOfFrontOfHome"))
    /\ Len(inp.doc.windows) >= 2
    /\ \A i \in 1..Len(inp.doc.windows) :
          /\ ~IsNone(inp.doc.windows[i].area)
          /\ ~(IsNone(inp.doc.windows[i].azimuth) /\ IsNone(inp.doc.windows[i].orientation))

(* the summed window area of a bin of the source                           *)
WindowAreaOfBin(a) ==
    SeqSum([i \in 1..Len(inp.doc.windows) |->
              LET w == inp.doc.windows[i]
                  bin == get_nearest_azimuth(IF IsNone(w.azimuth) THEN None
                                             ELSE Some(2 * Val(w.azimuth)), w.orientation)
              IN IF bin.val = a THEN Val(w.area) ELSE 0])

(* the children of Site are those of the source with one                   *)
(* AzimuthOfFrontOfHome among them, in the order of the schema, of a value *)
(* opposite to a bin of the greatest window area                           *)
FrontIsInserted(before, after) ==
    \E i \in 1..Len(after) :
       /\ after[i].tag = "AzimuthOfFrontOfHome"
       /\ SubSeq(after, 1, i - 1) \o SubSeq(after, i + 1, Len(after)) = before
       /\ \A j \in 1..Len(after) :
             after[j].tag \in SeqToSet(site_element_order) =>
                (j < i <=> IndexOf(site_element_order, after[j].tag)
                             < IndexOf(site_element_order, "AzimuthOfFrontOfHome"))
                \/ j = i
       /\ \E back \in AzimuthBins :
             /\ \A a \in AzimuthBins : WindowAreaOfBin(back) >= WindowAreaOfBin(a)
             /\ after[i].text = str((back + 180) % 360)

(* C27: with the apply-assumptions flag set and a source that gives        *)
(* neither a front azimuth nor a front orientation, the pre-pass inserts   *)
(* an AzimuthOfFrontOfHome element into the Site element, at the position  *)
(* the schema element order prescribes, whose value is (azimuth bin with    *)
(* the greatest summed window area + 180) mod 360, whatever children the   *)
(* Site element already has; the translation then resolves the front of    *)
(* the building to that azimuth instead of failing for lack of an          *)
(* orientation.                                                            *)
C27_FrontAzimuthAssumed ==
    (pc = "done" /\ FrontIsToBeAssumed) =>
       /\ out.doc.err = "ok"
       /\ FrontIsInserted(IF IsNone(inp.doc.site) THEN <<>> ELSE Val(inp.doc.site),
                          Val(out.doc.val.site))
       /\ out.about.err = "ok"
       /\ str(out.about.val.house_azimuth)
            = Val(TextOfChild(Val(out.doc.val.site), "AzimuthOfFrontOfHome"))

(* the part of C27 the code keeps: the same for a Site without children    *)
(* and for a Site with a child that follows AzimuthOfFrontOfHome in the    *)
(* schema order                                                            *)
C27_AssumedUnlessOnlyPreceding ==
    (/\ pc = "done"
     /\ FrontIsToBeAssumed
     /\ \/ IsNone(inp.doc.site)
        \/ Len(Val(inp.doc.site)) = 0
        \/ \E i \in 1..Len(Val(inp.doc.site)) : Val(inp.doc.site)[i].tag = "FuelTypesAvailable") =>
       /\ out.doc.err = "ok"
       /\ FrontIsInserted(IF IsNone(inp.doc.site) THEN <<>> ELSE Val(inp.doc.site),
                          Val(out.doc.val.site))
       /\ out.about.err = "ok"
       /\ str(out.about.val.house_azimuth)
            = Val(TextOfChild(Val(out.doc.val.site), "AzimuthOfFrontOfHome"))

(* a Site with Surroundings alone and two windows to the north and the     *)
(* west: no element is inserted and the translation fails for lack of an   *)
(* orientation                                                             *)
C27_NotInsertedAfterSurroundings ==
    /\ pc = "done"
    /\ FrontIsToBeAssumed
    /\ inp.doc.site = Some(<<Element("Surroundings", "stand-alone")>>)
    /\ out.doc.err = "ok"
    /\ out.doc.val.site = inp.doc.site
    /\ out.about = Raise("TranslationError", "Either an orientation or azimuth is required.")

(* a Site with Surroundings and FuelTypesAvailable: the element is put     *)
(* between them and the front is resolved                                  *)
C27_InsertedBetween ==
    /\ pc = "done"
    /\ FrontIsToBeAssumed
    /\ Len(Val(out.doc.val.site)) = 3
    /\ Val(out.doc.val.site)[1].tag = "Surroundings"
    /\ Val(out.doc.val.site)[2].tag = "AzimuthOfFrontOfHome"
    /\ Val(out.doc.val.site)[3].tag = "FuelTypesAvailable"
    /\ out.about.err = "ok"
    /\ out.about.val.house_azimuth = 180

(***************************************************************************)
(* The range of the duct fractions and the bucket of the remainder.        *)
(***************************************************************************)

(* the weight of a location before it is rounded, as BucketsAsClaimed      *)
(* takes it: scaled by the floor area served when every system gives one   *)
WeightBeforeRounding(systems, loc) ==
    ClaimedWeight(systems, loc, Len(systems) > 0 /\ AllHaveCfaServed(systems))

(* bucket i is of a location of the greatest weight and every other bucket *)
(* holds its rounded percentage                                            *)
RemainderGoesTo(systems, buckets, i) ==
    LET total == SeqSum([j \in 1..Len(buckets) |->
                            WeightBeforeRounding(systems, buckets[j].location)])
    IN /\ \A l \in DuctKeys(systems) :
             WeightBeforeRounding(systems, buckets[i].location)
                >= WeightBeforeRounding(systems, l)
       /\ \A j \in 1..Len(buckets) :
             j # i => buckets[j].fraction =
                         PyRound(100 * WeightBeforeRounding(systems, buckets[j].location), total)

(* C28: every duct bucket returned by _get_systems_hvac_distribution has   *)
(* an integer fraction in [0,100], also after the rounding remainder has   *)
(* been added to the largest bucket, and the bucket that receives the      *)
(* remainder is the one with the greatest share before rounding; hence the *)
(* validator's hvac_distribution_fraction check never fails on a record    *)
(* the translator produced from non-negative duct fractions.               *)
C28_FractionsWithinBounds ==
    (pc = "done" /\ out.err = "ok") =>
       /\ \A i \in 1..Len(out.val) : out.val[i].fraction \in 0..100
       /\ Len(out.val) > 0 => RemainderGoesTo(inp.systems, out.val, 1)
       /\ ValidateDistribution([hvac_distribution |-> out.val]) = Ok(TRUE)

(* three locations of weights 3, 3 and 2 round to 38, 38 and 25: the first *)
(* bucket gives up one and holds less than the second                      *)
C28_Witness ==
    /\ pc = "done" /\ out.err = "ok" /\ Len(out.val) = 3
    /\ out.val[1].fraction = 37 /\ out.val[2].fraction = 38 /\ out.val[3].fraction = 25

(* one location holds all of the ducts: its bucket is at the upper bound   *)
C28_WitnessUpperBound ==
    /\ pc = "done" /\ out.err = "ok" /\ Len(out.val) = 1
    /\ out.val[1].fraction = 100

(***************************************************************************)
(* The roof area of the attics and of the zones                            *)
(***************************************************************************)

(* the area of an attic of the input: its Area, or the footprint area that *)
(* the only attic of a building with one roof is given when it has none    *)
InputAtticArea(attic) ==
    IF IsNone(attic.area) THEN inp.footprint_area ELSE Val(attic.area)

(* the roof types of the attics of the input                               *)
InputRoofTypes == {Val(rooftypemap[Val(inp.attics[i].attic_type)]) : i \in 1..Len(inp.attics)}

(* C29: roof area is conserved: whenever _get_building_zone_roof returns,  *)
(* the sum of roof_area over the output zones equals the sum of the areas  *)
(* of all input attics; because attic types map to only two roof types     *)
(* (cath_ceiling, vented_attic), grouping more than two attics yields at   *)
(* most two groups, so taking the two largest zones never discards an      *)
(* attic.                                                                  *)
C29_RoofAreaConserved ==
    (pc = "done" /\ out.err = "ok") =>
       /\ SeqSum([z \in 1..Len(out.val) |-> out.val[z].roof_area])
            = SeqSum([i \in 1..Len(inp.attics) |-> InputAtticArea(inp.attics[i])])
       /\ InputRoofTypes \subseteq {"cath_ceiling", "vented_attic"}
       /\ Len(inp.attics) > 2 => Len(out.val) = Cardinality(InputRoofTypes)
       /\ \A i \in 1..Len(inp.attics) :
             \E z \in 1..Len(out.val) :
                /\ out.val[z].roof_type = Val(rooftypemap[Val(inp.attics[i].attic_type)])
                /\ Val(RoofOfAttic(inp.attics[i], inp.roofs)).id \in out.val[z].roofids

(* more than two attics of both roof types: two zones that hold the area   *)
(* of all of them                                                          *)
C29_Witness ==
    /\ pc = "done" /\ out.err = "ok"
    /\ Len(inp.attics) > 2
    /\ Len(out.val) = 2
    /\ out.val[1].roof_area + out.val[2].roof_area
         = SeqSum([i \in 1..Len(inp.attics) |-> Val(inp.attics[i].area)])
    /\ out.val[2].roof_area > 0

(* the only attic has no Area: its zone has the footprint area             *)
C29_WitnessFootprint ==
    /\ pc = "done" /\ out.err = "ok"
    /\ Len(inp.attics) = 1 /\ IsNone(inp.attics[1].area)
    /\ out.val[1].roof_area = FootprintArea

(***************************************************************************)
(* HPXML3toHEScoreTranslator.get_attic_floor_rvalue (hpxml3.py).           *)
(* An id is a sequence of characters.  The attic gives the idrefs of its   *)
(* AttachedToFrameFloor elements; a FrameFloor is [id, area, layers], the  *)
(* layers being the NominalRValues of its insulation.  An R-value is       *)
(* returned as a quotient [num, den].                                      *)
(***************************************************************************)

Quotient(num, den) == [num |-> num, den |-> den]

(* "{}".format(floor_idref): the idref itself, or the list of several      *)
FormatIdref(idrefs) ==
    IF Len(idrefs) = 1 THEN idrefs[1]
    ELSE LET Quoted(i) == <<"'">> \o idrefs[i] \o <<"'">>
             RECURSIVE Joined(_)
             Joined(i) == IF i > Len(idrefs) THEN <<>>
                          ELSE (IF i > 1 THEN <<",", " ">> ELSE <<>>) \o Quoted(i) \o Joined(i + 1)
         IN <<"[">> \o Joined(1) \o <<"]">>

(* XPath contains(text, part)                                              *)
contains(text, part) ==
    \E i \in 1..(Len(text) - Len(part) + 1) : SubSeq(text, i, i + Len(part) - 1) = part

RECURSIVE SeqProduct(_)
SeqProduct(s) == IF Len(s) = 0 THEN 1 ELSE Head(s) * SeqProduct(Tail(s))

(* sum(area_i) / sum(area_i / rvalue_i), or 0 on ZeroDivisionError         *)
AreaWeightedRValue(frame_floors) ==
    LET area == [i \in 1..Len(frame_floors) |-> Val(frame_floors[i].area)]
        rvalue == [i \in 1..Len(frame_floors) |-> SeqSum(frame_floors[i].layers)]
        all == SeqProduct(rvalue)
    IN IF \E i \in 1..Len(frame_floors) : rvalue[i] = 0 THEN Quotient(0, 1)
       ELSE LET quotients == SeqSum([i \in 1..Len(frame_floors) |-> area[i] * (all \div rvalue[i])])
            IN IF quotients = 0 THEN Quotient(0, 1)
               ELSE Quotient(SeqSum(area) * all, quotients)

(* the frame floors are those whose id the formatted idref contains; the   *)
(* query raises when there is none                                         *)
get_attic_floor_rvalue(attic, b) ==
    IF IsNone(attic.floor_idref) THEN Ok(Quotient(0, 1))
    ELSE LET frame_floors ==
                 SelectSeq(b, LAMBDA f : contains(FormatIdref(Val(attic.floor_idref)), f.id))
             without_area == {i \in 1..Len(frame_floors) : IsNone(frame_floors[i].area)}
         IN IF Len(frame_floors) = 0
            THEN Raise("TranslationError", "ElementNotFoundError")
            ELSE IF without_area # {}
            THEN IF Len(frame_floors) = 1
                 THEN Ok(Quotient(SeqSum(frame_floors[1].layers), 1))
                 ELSE Raise("TranslationError",
                            "If there are more than one attic frame floor specified, each attic frame floor needs an Area specified")
            ELSE Ok(AreaWeightedRValue(frame_floors))

MaxFloorArea == 2

FrameFloorIds == << <<"f", "1">>, <<"f", "1", "0">>, <<"f", "2">> >>

FrameFloorLayerSamples == {<<>>, <<2>>, <<1, 2>>}

RECURSIVE FrameFloorsOver(_)
(* one FrameFloor for each id of the set of indices, in document order     *)
FrameFloorsOver(idx) ==
    IF idx = {} THEN {<<>>}
    ELSE LET i == CHOOSE j \in idx : \A k \in idx : j <= k
         IN {<<[id |-> FrameFloorIds[i], area |-> area, layers |-> layers]>> \o rest :
                area \in {None} \cup {Some(a) : a \in 0..MaxFloorArea},
                layers \in FrameFloorLayerSamples,
                rest \in FrameFloorsOver(idx \ {i})}

IdrefChoices ==
    {None}
    \cup {Some(<<FrameFloorIds[i]>>) : i \in 1..Len(FrameFloorIds)}
    \cup {Some(<<FrameFloorIds[1], FrameFloorIds[3]>>), Some(<<FrameFloorIds[2], FrameFloorIds[3]>>)}

AtticFloorInputs ==
    {[attic |-> [floor_idref |-> idref], b |-> floors] :
        idref \in IdrefChoices,
        floors \in UNION {FrameFloorsOver(idx) : idx \in SUBSET (1..Len(FrameFloorIds))}}

InitAtticFloor ==
    /\ pc = "attic_floor"
    /\ inp \in AtticFloorInputs
    /\ out = NoOut

GetAtticFloorRvalue ==
    /\ pc = "attic_floor"
    /\ out' = get_attic_floor_rvalue(inp.attic, inp.b)
    /\ pc' = "done"
    /\ UNCHANGED inp

SpecAtticFloor == InitAtticFloor /\ [][GetAtticFloorRvalue]_vars

(* the frame floors the attic names                                        *)
AttachedFloors ==
    IF IsNone(inp.attic.floor_idref) THEN <<>>
    ELSE SelectSeq(inp.b, LAMBDA f : f.id \in SeqToSet(Val(inp.attic.floor_idref)))

(* the frame floors the query of get_attic_floor_rvalue finds              *)
MatchedFloors ==
    IF IsNone(inp.attic.floor_idref) THEN <<>>
    ELSE SelectSeq(inp.b, LAMBDA f : contains(FormatIdref(Val(inp.attic.floor_idref)), f.id))

IsQuotient(res, num, den) == res.err = "ok" /\ res.val.num * den = res.val.den * num

(* the result for an attic with the given frame floors, which are some or  *)
(* none when it names none                                                 *)
RValueAsClaimed(res, floors) ==
    LET rvalue == [i \in 1..Len(floors) |-> SeqSum(floors[i].layers)]
        without_area == \E i \in 1..Len(floors) : IsNone(floors[i].area)
        total == SeqSum([i \in 1..Len(floors) |-> Val(floors[i].area)])
        Others(i) == SeqProduct([j \in 1..Len(floors) |-> IF j = i THEN 1 ELSE rvalue[j]])
    IN IF Len(floors) = 0 THEN IsQuotient(res, 0, 1)
       ELSE IF without_area
       THEN IF Len(floors) = 1 THEN IsQuotient(res, rvalue[1], 1)
            ELSE res.err = "TranslationError"
       ELSE IF total = 0 \/ \E i \in 1..Len(floors) : rvalue[i] = 0
       THEN IsQuotient(res, 0, 1)
       ELSE IsQuotient(res, total * SeqProduct(rvalue),
                       SeqSum([i \in 1..Len(floors) |-> Val(floors[i].area) * Others(i)]))

(* C30: HPXML3 get_attic_floor_rvalue returns 0.0 when the attic has no    *)
(* attached frame floor; returns that floor's own summed R-value when the  *)
(* only attached floor has no area; raises TranslationError when several   *)
(* floors are attached and one of them has no area; otherwise returns      *)
(* (sum of area_i) / (sum of area_i / R_i) over the attached floors, and   *)
(* returns 0 when that quotient is undefined, i.e. when any attached floor *)
(* has R-value 0 or the total area is 0.                                   *)
C30_AtticFloorRValue ==
    (/\ pc = "done"
     /\ IsNone(inp.attic.floor_idref) \/ Len(AttachedFloors) > 0) =>
       RValueAsClaimed(out, AttachedFloors)

(* the part of C30 the code keeps: the same over the frame floors whose id *)
(* is a part of the idref of the attic                                     *)
C30_OverMatchedFloors ==
    (/\ pc = "done"
     /\ IsNone(inp.attic.floor_idref) \/ Len(MatchedFloors) > 0) =>
       RValueAsClaimed(out, MatchedFloors)

(* the attic names f10 alone, which has no area; f1, which it does not     *)
(* name, is taken along and the translation is refused                     *)
C30_UnnamedFloorTakenAlong ==
    /\ pc = "done"
    /\ inp.attic.floor_idref = Some(<<FrameFloorIds[2]>>)
    /\ Len(AttachedFloors) = 1 /\ IsNone(AttachedFloors[1].area)
    /\ Len(MatchedFloors) = 2
    /\ out.err = "TranslationError"

(* two named floors of areas 1 and 2 and R-values 2 and 3: 3 / (1/2 + 2/3) *)
C30_WitnessWeighted ==
    /\ pc = "done"
    /\ AttachedFloors = MatchedFloors
    /\ Len(AttachedFloors) = 2
    /\ AttachedFloors[1].area = Some(1) /\ AttachedFloors[1].layers = <<2>>
    /\ AttachedFloors[2].area = Some(2) /\ AttachedFloors[2].layers = <<1, 2>>
    /\ IsQuotient(out, 18, 7)

(* the only named floor has no area and two layers: their sum is returned  *)
C30_WitnessWithoutArea ==
    /\ pc = "done"
    /\ AttachedFloors = MatchedFloors
    /\ Len(AttachedFloors) = 1 /\ IsNone(AttachedFloors[1].area)
    /\ AttachedFloors[1].layers = <<1, 2>>
    /\ IsQuotient(out, 3, 1)

=============================================================================
